---------------------------- MODULE Spec2Model ----------------------------
(***************************************************************************)
(* Model of the blueprint-template repository: the nested-path checker of *)
(* CTBBuilder, the completeness scorers, and the validation entry points.  *)
(*                                                                         *)
(* JSON values are tagged records [t, v].  A string is a sequence of       *)
(* symbols; a symbol is one character, or an identifier word that contains *)
(* none of the characters  .  [  ]  (so "branches[].name" is the sequence  *)
(* <<"branches","[","]",".","name">>).  An object is a function from keys  *)
(* (strings) to values, an array a sequence of values.                     *)
(***************************************************************************)
EXTENDS Integers, Sequences, FiniteSets, TLC

VARIABLES
    root,          \* hasNestedProperty: the obj argument
    path,          \* hasNestedProperty: the path argument
    pathResult,    \* hasNestedProperty: what the call produced
    ctbBlueprint,  \* validateSchema: the ctbBlueprint argument
    requiredKeys,  \* validateSchema: the requiredKeys argument
    mode,          \* validateSchema: the mode argument
    schemaErrors,  \* validateSchema: the returned error list, once called
    blueprint,     \* calculateCompleteness: the blueprint argument
    validatorScore,  \* BlueprintValidator.calculateCompleteness: its outcome
    exporterScore,   \* WhimsicalExporter.calculateCompleteness: its outcome
    program,         \* which validator this run is of
    blueprintFile,   \* validateBlueprint: the file under filePath
    writable,        \* validateBlueprint: whether that file can be written
    blueprintResult, \* validateBlueprint: the result returned, once called
    ctbFile,         \* CTBValidator.validate: the file of the last call
    ctbCalls,        \* CTBValidator.validate: the calls made on the instance
    ctbResult,       \* CTBValidator: this.result, which every call returns
    doctrineBlueprint,  \* validateDoctrine: the blueprint argument
    doctrineResult,     \* validateDoctrine: the object returned, once called
    yamlFile,           \* ctb-doctrine-builder: the file under blueprintPath
    exitCode,           \* the code a script has given to process.exit
    whimsicalExport,    \* exportForWhimsical: what the call produced
    imoBlueprint,       \* generateCTBFromIMO: the parsed IMO blueprint
    conversion,         \* convertIMOToCTB: how the call ended, once made
    renderResult,       \* renderCTB: the CTBRenderResult, once called
    processInput,       \* processBlueprint: the blueprint argument
    options,            \* processBlueprint: the options, defaults applied
    services,           \* how each service answers the call made to it
    process,            \* processBlueprint: where the call is, its results
    input,              \* engine panel: the text of the Blueprint JSON box
    projectName,        \* engine panel: the text of the Project Name box
    loading,            \* engine panel: useState(false)
    status,             \* engine panel: useState<Status>("draft")
    outputs,            \* engine panel: the emitted files, or null
    toast,              \* engine panel: the last toast shown
    operations,         \* engine panel: the validate and emit calls in flight
    lastQuery,          \* engine panel: the last query sent to Supabase
    implement,          \* implement(): the step it is at, or how it ended
    tempDirExists,      \* fs.existsSync(this.tempDir)
    gitBranches,        \* the lines `git branch -r` prints in the clone
    branchNames,        \* implement(): const branches, once analysed
    branchIndex,        \* implementFeatures: the branches the loop has done
    implementedFeatures,  \* this.implementedFeatures
    attempts            \* the branches tried so far, and whether each raised

pathVars == <<root, path, pathResult>>
schemaVars == <<ctbBlueprint, requiredKeys, mode, schemaErrors>>
scoreVars == <<blueprint, validatorScore, exporterScore>>
validateVars ==
    <<program, blueprintFile, writable, blueprintResult, ctbFile, ctbCalls,
      ctbResult, doctrineBlueprint, doctrineResult, yamlFile, exitCode,
      whimsicalExport>>
renderVars == <<imoBlueprint, conversion, renderResult>>
processVars == <<processInput, options, services, process>>
panelVars ==
    <<input, projectName, loading, status, outputs, toast, operations,
      lastQuery>>
implementVars ==
    <<implement, tempDirExists, gitBranches, branchNames, branchIndex,
      implementedFeatures, attempts>>
restVars == <<renderVars, processVars, panelVars, implementVars>>
vars == <<pathVars, schemaVars, scoreVars, validateVars, restVars>>

----------------------------------------------------------------------------
(* JSON values *)

Undefined == [t |-> "undefined", v |-> <<>>]
Null == [t |-> "null", v |-> <<>>]
Str(s) == [t |-> "str", v |-> s]
Num(n) == [t |-> "num", v |-> n]
Bool(b) == [t |-> "bool", v |-> b]
Arr(a) == [t |-> "arr", v |-> a]
Obj(f) == [t |-> "obj", v |-> f]

\* the empty object {}
EmptyObj == Obj(<<>>)

\* an identifier word as a string, and a string value holding it
W(w) == <<w>>
S(w) == Str(<<w>>)

\* JavaScript's ToBoolean on a JSON value (the operand of ! and of if)
Truthy(x) ==
    CASE x.t = "undefined" -> FALSE
      [] x.t = "null" -> FALSE
      [] x.t = "str" -> x.v # <<>>
      [] x.t = "num" -> x.v # 0
      [] x.t = "bool" -> x.v
      [] OTHER -> TRUE

\* Array.isArray
IsArray(x) == x.t = "arr"

\* the array index a property key denotes (1-based), 0 when it is none
IndexOfKey(key) ==
    IF key = <<"0">> THEN 1 ELSE IF key = <<"1">> THEN 2 ELSE 0

\* x[key] for a value x that is neither null nor undefined: own properties
\* of objects, elements and length of arrays and strings
Get(x, key) ==
    CASE x.t = "obj" ->
           IF key \in DOMAIN x.v THEN x.v[key] ELSE Undefined
      [] x.t \in {"arr", "str"} ->
           IF key = <<"length">> THEN Num(Len(x.v))
           ELSE IF IndexOfKey(key) \in 1..Len(x.v)
                THEN (IF x.t = "arr" THEN x.v[IndexOfKey(key)]
                      ELSE Str(<<x.v[IndexOfKey(key)]>>))
                ELSE Undefined
      [] OTHER -> Undefined

\* whether evaluating x[key] raises a TypeError
GetThrows(x) == x.t \in {"undefined", "null"}

----------------------------------------------------------------------------
(* String operations used by the path checker and the scorers *)

\* String.prototype.includes
Includes(s, sub) ==
    \E i \in 1..(Len(s) - Len(sub) + 1) : SubSeq(s, i, i + Len(sub) - 1) = sub

\* the first position where sub occurs in s (s includes sub)
FirstAt(s, sub) ==
    CHOOSE i \in 1..(Len(s) - Len(sub) + 1) :
        /\ SubSeq(s, i, i + Len(sub) - 1) = sub
        /\ \A j \in 1..(i - 1) : SubSeq(s, j, j + Len(sub) - 1) # sub

\* String.prototype.replace with a string pattern: the first occurrence only
Replace(s, sub, rep) ==
    IF Includes(s, sub)
    THEN SubSeq(s, 1, FirstAt(s, sub) - 1) \o rep
         \o SubSeq(s, FirstAt(s, sub) + Len(sub), Len(s))
    ELSE s

RECURSIVE Split(_, _)
\* String.prototype.split on a one-symbol separator
Split(s, sep) ==
    IF \E i \in 1..Len(s) : s[i] = sep
    THEN LET i == CHOOSE k \in 1..Len(s) :
                      s[k] = sep /\ \A j \in 1..(k - 1) : s[j] # sep
         IN <<SubSeq(s, 1, i - 1)>> \o Split(SubSeq(s, i + 1, Len(s)), sep)
    ELSE <<s>>

\* Array.prototype.indexOf, 1-based (x occurs in a)
IndexOf(a, x) ==
    CHOOSE i \in 1..Len(a) : a[i] = x /\ \A j \in 1..(i - 1) : a[j] # x

\* Array.prototype.slice(from), from 1-based
Slice(a, from) == SubSeq(a, from, Len(a))

Brackets == <<"[", "]">>

----------------------------------------------------------------------------
(* CTBBuilder.hasNestedProperty / checkRemainingPath *)

\* the outcome of a call: a boolean, or a raised error
Returned(b) == [thrown |-> FALSE, val |-> b]
Thrown == [thrown |-> TRUE, val |-> FALSE]

RECURSIVE Every(_, _, _)
RECURSIVE checkRemainingLoop(_, _, _)

\* checkRemainingPath(obj, remainingParts)
checkRemainingPath(obj, remainingParts) ==
    IF Len(remainingParts) = 0 THEN Returned(TRUE)
    ELSE checkRemainingLoop(remainingParts, 1, obj)

\* the test of the array branch, left to right with short-circuit:
\* !current || !current[arrayKey] || !Array.isArray(current[arrayKey])
\*          || current[arrayKey].length === 0
\* "fail": the test is true (return false); "pass": it is false;
\* "throw": a property of null or undefined was read
ArrayGuard(current, arrayKey) ==
    IF ~Truthy(current) THEN "fail"
    ELSE IF GetThrows(current) THEN "throw"
    ELSE IF ~Truthy(Get(current, arrayKey)) THEN "fail"
    ELSE IF ~IsArray(Get(current, arrayKey)) THEN "fail"
    ELSE IF Len(Get(current, arrayKey).v) = 0 THEN "fail"
    ELSE "pass"

\* mutant of KeyGuard: !current || !current[part], a falsy value counts as
\* a missing one
KeyGuardFalsy(current, part) ==
    IF ~Truthy(current) THEN "fail"
    ELSE IF GetThrows(current) THEN "throw"
    ELSE IF ~Truthy(Get(current, part)) THEN "fail"
    ELSE "pass"

\* the test of the plain branch: !current || current[part] === undefined
KeyGuard(current, part) ==
    IF ~Truthy(current) THEN "fail"
    ELSE IF GetThrows(current) THEN "throw"
    ELSE IF Get(current, part) = Undefined THEN "fail"
    ELSE "pass"

RECURSIVE EverySome(_, _, _)
\* mutant of Every: items.some(...), one element that passes is enough
EverySome(items, i, rest) ==
    IF i > Len(items) THEN Returned(FALSE)
    ELSE LET r == checkRemainingPath(items[i], rest)
         IN IF r.thrown \/ r.val THEN r ELSE EverySome(items, i + 1, rest)

\* items.every(item => this.checkRemainingPath(item, rest)), from element i
\* on: every stops at the first element that yields false or raises
Every(items, i, rest) ==
    IF i > Len(items) THEN Returned(TRUE)
    ELSE LET r == checkRemainingPath(items[i], rest)
         IN IF r.thrown \/ ~r.val THEN r ELSE Every(items, i + 1, rest)

\* the for loop of checkRemainingPath, at part i with `current`
checkRemainingLoop(remainingParts, i, current) ==
    IF i > Len(remainingParts) THEN Returned(TRUE)
    ELSE LET part == remainingParts[i]
         IN IF Includes(part, Brackets)
            THEN LET arrayKey == Replace(part, Brackets, <<>>)
                     g == ArrayGuard(current, arrayKey)
                 IN IF g = "throw" THEN Thrown
                    ELSE IF g = "fail" THEN Returned(FALSE)
                    ELSE Every(Get(current, arrayKey).v, 1,
                               Slice(remainingParts,
                                     IndexOf(remainingParts, part) + 1))
            ELSE LET g == KeyGuard(current, part)
                 IN IF g = "throw" THEN Thrown
                    ELSE IF g = "fail" THEN Returned(FALSE)
                    ELSE checkRemainingLoop(remainingParts, i + 1,
                                            Get(current, part))

RECURSIVE hasNestedLoop(_, _, _)
\* the for loop of hasNestedProperty, at part i with `current`
hasNestedLoop(parts, i, current) ==
    IF i > Len(parts) THEN Returned(TRUE)
    ELSE LET part == parts[i]
         IN IF Includes(part, Brackets)
            THEN LET arrayKey == Replace(part, Brackets, <<>>)
                     g == ArrayGuard(current, arrayKey)
                 IN IF g = "throw" THEN Thrown
                    ELSE IF g = "fail" THEN Returned(FALSE)
                    ELSE Every(Get(current, arrayKey).v, 1,
                               Slice(parts, IndexOf(parts, part) + 1))
            ELSE LET g == KeyGuard(current, part)
                 IN IF g = "throw" THEN Thrown
                    ELSE IF g = "fail" THEN Returned(FALSE)
                    ELSE hasNestedLoop(parts, i + 1, Get(current, part))

\* hasNestedProperty(obj, path)
hasNestedProperty(obj, p) == hasNestedLoop(Split(p, "."), 1, obj)

----------------------------------------------------------------------------
(* Inputs of the path checker *)

\* longest path, in segments, and longest array, the model draws
MaxPathLen == 3
MaxArrayLen == 2

KeyPool == {<<"a">>, <<"b">>}

\* well-formed segments (key, key[]) and malformed ones: the empty segment,
\* a bare [], and [] in the middle of a segment
SegPool ==
    KeyPool \cup {k \o Brackets : k \in KeyPool}
    \cup {<<>>, Brackets, <<"a", "[", "]", "b">>}

RECURSIVE Join(_, _)
\* Array.prototype.join
Join(segs, sep) ==
    IF Len(segs) = 0 THEN <<>>
    ELSE IF Len(segs) = 1 THEN segs[1]
    ELSE segs[1] \o <<sep>> \o Join(Tail(segs), sep)

SeqsUpTo(X, n) == UNION {[1..k -> X] : k \in 0..n}

\* every path string of 1..MaxPathLen segments of SegPool
Paths == {Join(segs, ".") : segs \in SeqsUpTo(SegPool, MaxPathLen) \ {<<>>}}

Leaves == {Null, Str(<<>>), S("x"), Num(0), Bool(TRUE)}

\* one-key objects over a set of values
Objs1(keys, vals) == {Obj((k :> x)) : k \in keys, x \in vals}

\* array elements: objects with a present, empty, null or missing key, and
\* elements that are no objects
Elems == Objs1({<<"a">>}, {S("x"), Null}) \cup {EmptyObj, Null}

Arrays(elems) == {Arr(a) : a \in SeqsUpTo(elems, MaxArrayLen)}

\* arrays whose elements hold arrays themselves (for a[].b[] paths)
NestedArrays ==
    Arrays(Objs1({<<"b">>}, {Arr(<<>>), Arr(<<Obj((<<"a">> :> S("x")))>>)}))

Level1 == Leaves \cup Arrays(Elems) \cup NestedArrays \cup {EmptyObj}

\* the roots: scalars, arrays, and objects one and two levels deep
Roots ==
    Leaves \cup {Arr(<<>>), EmptyObj, Obj((<<"a", "b">> :> Arr(<<EmptyObj>>)))}
    \cup Objs1({<<"a">>}, Level1)
    \cup Objs1({<<"a">>}, Objs1({<<"b">>}, Level1))
    \cup {Obj((<<"a">> :> S("x")) @@ (<<"b">> :> x)) : x \in Leaves}

----------------------------------------------------------------------------
(* Specification of the path checker: one call on drawn arguments *)

NoResult == [called |-> FALSE, thrown |-> FALSE, val |-> FALSE]

\* no path-checker call is under way
PathIdle == root = Null /\ path = <<>> /\ pathResult = NoResult

\* no validateSchema call is under way
NotValidated == [called |-> FALSE, errors |-> <<>>]
SchemaIdle ==
    /\ ctbBlueprint = Null /\ requiredKeys = <<>> /\ mode = "normal"
    /\ schemaErrors = NotValidated

\* no completeness scorer is at work
NotScored ==
    [called |-> FALSE, thrown |-> FALSE, totalFields |-> 0, filledFields |-> 0,
     percent |-> 0]
ScoreIdle ==
    blueprint = Null /\ validatorScore = NotScored /\ exporterScore = NotScored

\* const result: ValidationResult = {...}
NewBlueprintResult ==
    [isValid |-> FALSE, errors |-> <<>>, warnings |-> <<>>, completeness |-> 0,
     suggestions |-> <<>>]

\* private result: ValidationResult = {...}, the field of a new validator
NewResult ==
    [valid |-> TRUE, errors |-> <<>>, warnings |-> <<>>,
     doctrineChecks |->
        [heirCanopy |-> FALSE, verticalIMO |-> FALSE, orbtDiscipline |-> FALSE,
         schemaGrounding |-> FALSE, promotionGates |-> FALSE,
         middleOperations |-> FALSE]]

\* no validator is run: no file, no call, and a validator just constructed
NoFile == [kind |-> "none", doc |-> Null]
NoBlueprintResult == [called |-> FALSE, result |-> NewBlueprintResult]
NoDoctrineResult ==
    [called |-> FALSE, result |-> [valid |-> FALSE, violations |-> <<>>]]
BlueprintIdle ==
    blueprintFile = NoFile /\ writable = TRUE /\ blueprintResult = NoBlueprintResult
CTBIdle == ctbFile = NoFile /\ ctbCalls = 0 /\ ctbResult = NewResult
DoctrineIdle == doctrineBlueprint = Null /\ doctrineResult = NoDoctrineResult
\* process.exit(code), and a process that has not exited
Exit(code) == [exited |-> TRUE, code |-> code]
NotExited == [exited |-> FALSE, code |-> 0]
\* no export has been asked for
NotExported ==
    [called |-> FALSE, thrown |-> FALSE, ready |-> Bool(FALSE),
     completeness |-> 0]
ValidateIdle ==
    /\ program = "none"
    /\ BlueprintIdle
    /\ CTBIdle
    /\ DoctrineIdle
    /\ yamlFile = NoFile
    /\ exitCode = NotExited
    /\ whimsicalExport = NotExported

\* no conversion and no rendering is under way
NotConverted == [called |-> FALSE, thrown |-> FALSE]
NotRendered ==
    [called |-> FALSE, thrown |-> FALSE, diagram |-> <<>>, checklist |-> <<>>,
     summary |-> [branches |-> 0, nodes |-> 0, sub_branches |-> 0,
                  errors |-> <<>>]]
RenderIdle ==
    imoBlueprint = Null /\ conversion = NotConverted /\ renderResult = NotRendered
\* no pipeline is run
NoOptions ==
    [validate_heir |-> FALSE, enhance_with_llm |-> FALSE,
     save_to_ssot |-> FALSE, log_telemetry |-> FALSE]
NoServices == [registry |-> Null, heir |-> Null, llm |-> Null, ssot |-> Null,
               sidecar |-> <<>>]
NoProcess ==
    [pc |-> "none", steps |-> <<>>, orchestrator_mapping |-> Null,
     heir_validation |-> Null, llm_enhancement |-> Null,
     ssot_response |-> Null, error |-> Null, fetches |-> <<>>]
ProcessIdle ==
    /\ processInput = Null /\ options = NoOptions /\ services = NoServices
    /\ process = NoProcess
\* the engine panel as it is mounted: const [input, setInput] = useState("")
\* and the other four hooks; no toast, no call in flight, no query sent
BlankInput == [kind |-> "blank", doc |-> Undefined]
NoQuery == [op |-> "none", project_name |-> <<>>, payload |-> Undefined]
PanelMounted ==
    /\ input = BlankInput
    /\ projectName = <<"blueprint-project">>
    /\ loading = FALSE
    /\ status = "draft"
    /\ outputs = Null
    /\ toast = "none"
    /\ operations = {}
    /\ lastQuery = NoQuery
PanelIdle == PanelMounted
\* no IMOCreatorImplementation has been constructed
ImplementIdle ==
    /\ implement = "none"
    /\ tempDirExists = FALSE
    /\ gitBranches = <<>>
    /\ branchNames = <<>>
    /\ branchIndex = 0
    /\ implementedFeatures = <<>>
    /\ attempts = <<>>
RestIdle == RenderIdle /\ ProcessIdle /\ PanelIdle /\ ImplementIdle

InitPath ==
    /\ root \in Roots
    /\ path \in Paths
    /\ pathResult = NoResult
    /\ SchemaIdle
    /\ ScoreIdle
    /\ ValidateIdle
    /\ RestIdle

\* builder.hasNestedProperty(root, path)
HasNestedProperty ==
    /\ ~pathResult.called
    /\ pathResult' = [called |-> TRUE,
                      thrown |-> hasNestedProperty(root, path).thrown,
                      val |-> hasNestedProperty(root, path).val]
    /\ UNCHANGED <<root, path, schemaVars, scoreVars, validateVars, restVars>>

NextPath == HasNestedProperty

SpecPath == InitPath /\ [][NextPath]_vars

----------------------------------------------------------------------------
(* Claims about the path checker *)

\* the parts of the path and the first one holding []
PathParts == Split(path, ".")
HasArraySeg == \E i \in 1..Len(PathParts) : Includes(PathParts[i], Brackets)
FirstArraySeg ==
    CHOOSE i \in 1..Len(PathParts) :
        /\ Includes(PathParts[i], Brackets)
        /\ \A j \in 1..(i - 1) : ~Includes(PathParts[j], Brackets)

RECURSIVE ValueAt(_, _)
\* the value reached from x by following plain keys, Undefined when one of
\* them cannot be followed
ValueAt(x, keys) ==
    IF Len(keys) = 0 THEN x
    ELSE IF x.t \in {"undefined", "null"} THEN Undefined
    ELSE ValueAt(Get(x, Head(keys)), Tail(keys))

\* the value at the first [] segment and the parts after it
ArrayAtSeg ==
    LET before == ValueAt(root, SubSeq(PathParts, 1, FirstArraySeg - 1))
    IN IF before.t \in {"undefined", "null"} THEN Undefined
       ELSE Get(before, Replace(PathParts[FirstArraySeg], Brackets, <<>>))
RestAfterSeg == SubSeq(PathParts, FirstArraySeg + 1, Len(PathParts))

\* the remaining path checked against one element, as a path of its own
ElemHolds(e, rest) ==
    IF rest = <<>> THEN TRUE ELSE hasNestedProperty(e, Join(rest, ".")).val

\* C1: when the value at the first [] segment of the path is an array, the
\* checker returns false if the array is empty, and otherwise the conjunction
\* of the remaining path checked against every element.
C1_ArrayIsConjunction ==
    (pathResult.called /\ HasArraySeg /\ IsArray(ArrayAtSeg)) =>
        /\ ~pathResult.thrown
        /\ pathResult.val =
              (/\ Len(ArrayAtSeg.v) > 0
               /\ \A k \in 1..Len(ArrayAtSeg.v) :
                      ElemHolds(ArrayAtSeg.v[k], RestAfterSeg))

\* C1 witness: an array of two elements, the remaining path holding for one
\* and not for the other, and the checker answering false
C1_Witness ==
    /\ pathResult.called /\ HasArraySeg /\ IsArray(ArrayAtSeg)
    /\ Len(ArrayAtSeg.v) = 2
    /\ ElemHolds(ArrayAtSeg.v[1], RestAfterSeg)
    /\ ~ElemHolds(ArrayAtSeg.v[2], RestAfterSeg)
    /\ ~pathResult.val

RECURSIVE BadKey(_, _)
\* some key the parts traverse from x is missing, holds null, or holds no
\* array where the part has []
BadKey(x, parts) ==
    IF Len(parts) = 0 THEN FALSE
    ELSE LET part == Head(parts)
             held == IF x.t \in {"undefined", "null"} THEN Undefined
                     ELSE Get(x, Replace(part, Brackets, <<>>))
         IN IF Includes(part, Brackets)
            THEN \/ ~IsArray(held)
                 \/ \E k \in 1..Len(held.v) : BadKey(held.v[k], Tail(parts))
            ELSE \/ held.t \in {"undefined", "null"}
                 \/ BadKey(held, Tail(parts))

\* C2 as claimed: the checker returns false whenever a traversed key, the
\* last one included, is missing, null, or no array at a [] segment.
C2_FalseOnBadKey ==
    (pathResult.called /\ BadKey(root, PathParts)) =>
        (~pathResult.thrown /\ ~pathResult.val)

----------------------------------------------------------------------------
(* zod schemas: what safeParse reports for a value *)

\* a schema: its kind, whether .optional(), its .min(), the element schema
\* of an array, the fields of an object (key and schema, in order), and the
\* name a z.lazy resolves to
Z(kind) ==
    [k |-> kind, opt |-> FALSE, min |-> 0, of |-> <<>>, fields |-> <<>>,
     ref |-> "", lit |-> <<>>]
ZString == Z("string")
ZBoolean == Z("boolean")
ZNumber == Z("number")
\* z.string().url() and z.string().datetime()
ZUrl == Z("url")
ZDatetime == Z("datetime")
\* z.literal(s) for a string s, z.record(el), a.or(b)
ZLiteral(s) == [Z("literal") EXCEPT !.lit = s]
ZRecord(el) == [Z("record") EXCEPT !.of = <<el>>]
ZOr(a, b) == [Z("union") EXCEPT !.of = <<a, b>>]
ZOptional(s) == [s EXCEPT !.opt = TRUE]
ZMin(s, n) == [s EXCEPT !.min = n]
ZArray(el) == [Z("array") EXCEPT !.of = <<el>>]
ZObject(fields) == [Z("object") EXCEPT !.fields = fields]
ZLazy(name) == [Z("lazy") EXCEPT !.ref = name]

\* const CTBNodeSchema
CTBNodeSchema ==
    ZObject(<<
        <<W("label"), ZString>>,
        <<W("IMO"), ZObject(<< <<W("input"), ZString>>,
                               <<W("middle"), ZString>>,
                               <<W("output"), ZString>> >>)>>,
        <<W("ORBT"), ZObject(<< <<W("operate"), ZString>>,
                                <<W("repair"), ZString>>,
                                <<W("build"), ZString>>,
                                <<W("train"), ZString>> >>)>>,
        <<W("orchestrator"), ZOptional(ZString)>>,
        <<W("sub_agent"), ZOptional(ZString)>> >>)

\* const CTBBranchSchema
CTBBranchSchema ==
    ZObject(<<
        <<W("name"), ZString>>,
        <<W("nodes"), ZMin(ZArray(CTBNodeSchema), 1)>>,
        <<W("sub_branches"), ZOptional(ZArray(ZLazy("CTBBranchSchema")))>> >>)

\* const CTBBlueprintSchema
CTBBlueprintSchema ==
    ZObject(<<
        <<W("star"), ZObject(<< <<W("name"), ZString>> >>)>>,
        <<W("branches"), ZMin(ZArray(CTBBranchSchema), 1)>> >>)

\* what z.lazy(() => X) resolves to
LazySchema(name) == CTBBranchSchema

RECURSIVE KeySeq(_)
\* the keys of an object in the order Object.values visits them
KeySeq(D) ==
    IF D = {} THEN <<>>
    ELSE LET k == CHOOSE k \in D : TRUE IN <<k>> \o KeySeq(D \ {k})

\* error.path.join('.') of an issue below `at`
AtKey(at, key) == IF at = <<>> THEN key ELSE at \o <<".">> \o key

\* the scheme words and the date-time words of the strings of the model: a
\* string parses as a URL when it starts with a scheme and a colon, and is an
\* ISO date-time when it is one date-time word
UrlSchemes == {"http", "https"}
IsUrl(s) == Len(s) >= 3 /\ s[1] \in UrlSchemes /\ s[2] = ":"
DatetimeWords == {"2024-01-01T00:00:00Z"}
IsDatetime(s) == Len(s) = 1 /\ s[1] \in DatetimeWords

RECURSIVE ZodIssues(_, _, _)
RECURSIVE ZodFieldIssues(_, _, _, _)
RECURSIVE ZodElemIssues(_, _, _, _)
RECURSIVE ZodRecordIssues(_, _, _, _)

\* the issues of the values of a record, from key i on
ZodRecordIssues(el, x, keys, at) ==
    IF keys = <<>> THEN <<>>
    ELSE ZodIssues(el, x.v[Head(keys)], AtKey(at, Head(keys)))
         \o ZodRecordIssues(el, x, Tail(keys), at)

\* the issues of the fields of an object schema, from field i on
ZodFieldIssues(fields, i, x, at) ==
    IF i > Len(fields) THEN <<>>
    ELSE ZodIssues(fields[i][2], Get(x, fields[i][1]), AtKey(at, fields[i][1]))
         \o ZodFieldIssues(fields, i + 1, x, at)

\* the issues of the elements of an array, from element i on
ZodElemIssues(el, items, i, at) ==
    IF i > Len(items) THEN <<>>
    ELSE ZodIssues(el, items[i], AtKey(at, <<ToString(i - 1)>>))
         \o ZodElemIssues(el, items, i + 1, at)

\* schema.safeParse(x).error.errors as the paths of the issues, in order;
\* empty when the parse succeeds
ZodIssues(s, x, at) ==
    IF s.k = "any" THEN <<>>
    ELSE IF s.k = "union"
    THEN (IF \E i \in 1..Len(s.of) : ZodIssues(s.of[i], x, at) = <<>>
          THEN <<>> ELSE <<at>>)
    ELSE IF x = Undefined THEN (IF s.opt THEN <<>> ELSE <<at>>)
    ELSE CASE s.k = "string" ->
                IF x.t # "str" \/ Len(x.v) < s.min THEN <<at>> ELSE <<>>
           [] s.k = "boolean" -> IF x.t # "bool" THEN <<at>> ELSE <<>>
           [] s.k = "number" -> IF x.t # "num" THEN <<at>> ELSE <<>>
           [] s.k = "array" ->
                IF x.t # "arr" THEN <<at>>
                ELSE (IF Len(x.v) < s.min THEN <<at>> ELSE <<>>)
                     \o ZodElemIssues(s.of[1], x.v, 1, at)
           [] s.k = "object" ->
                IF x.t # "obj" THEN <<at>>
                ELSE ZodFieldIssues(s.fields, 1, x, at)
           [] s.k = "lazy" ->
                ZodIssues([LazySchema(s.ref) EXCEPT !.opt = s.opt], x, at)
           [] s.k = "url" ->
                IF x.t # "str" \/ ~IsUrl(x.v) THEN <<at>> ELSE <<>>
           [] s.k = "datetime" ->
                IF x.t # "str" \/ ~IsDatetime(x.v) THEN <<at>> ELSE <<>>
           [] s.k = "literal" -> IF x # Str(s.lit) THEN <<at>> ELSE <<>>
           [] s.k = "record" ->
                IF x.t # "obj" THEN <<at>>
                ELSE ZodRecordIssues(s.of[1], x, KeySeq(DOMAIN x.v), at)

----------------------------------------------------------------------------
(* CTBBuilder.checkForProperty *)

\* Object.values(current) of an object or an array
ObjectValues(current) ==
    IF current.t = "arr" THEN current.v
    ELSE [i \in 1..Len(KeySeq(DOMAIN current.v)) |->
              current.v[KeySeq(DOMAIN current.v)[i]]]

\* current.hasOwnProperty is not callable: an own key of that name holds a
\* JSON value, which shadows Object.prototype.hasOwnProperty
HasOwnPropertyShadowed(current) ==
    current.t = "obj" /\ W("hasOwnProperty") \in DOMAIN current.v

\* current.hasOwnProperty(propertyName) when it is callable
HasOwn(current, propertyName) ==
    current.t = "obj" /\ propertyName \in DOMAIN current.v

RECURSIVE checkObject(_, _)
RECURSIVE checkValues(_, _, _)
RECURSIVE someItem(_, _, _)

\* value.some(item => checkObject(item)), from item i on
someItem(items, i, propertyName) ==
    IF i > Len(items) THEN Returned(FALSE)
    ELSE LET r == checkObject(items[i], propertyName)
         IN IF r.thrown \/ r.val THEN r
            ELSE someItem(items, i + 1, propertyName)

\* the for loop over Object.values(current), from value i on
checkValues(values, i, propertyName) ==
    IF i > Len(values) THEN Returned(FALSE)
    ELSE LET value == values[i]
             r == IF IsArray(value) THEN someItem(value.v, 1, propertyName)
                  ELSE IF value.t = "obj" THEN checkObject(value, propertyName)
                  ELSE Returned(FALSE)
         IN IF r.thrown \/ r.val THEN r
            ELSE checkValues(values, i + 1, propertyName)

\* const checkObject = (current) => ...
checkObject(current, propertyName) ==
    IF current.t \notin {"obj", "arr"} THEN Returned(FALSE)
    ELSE IF HasOwnPropertyShadowed(current) THEN Thrown
    ELSE IF HasOwn(current, propertyName) THEN Returned(TRUE)
    ELSE checkValues(ObjectValues(current), 1, propertyName)

\* checkForProperty(obj, propertyName)
checkForProperty(obj, propertyName) ==
    IF ~Truthy(obj) THEN Returned(FALSE) ELSE checkObject(obj, propertyName)

----------------------------------------------------------------------------
(* CTBBuilder.validateSchema *)

\* one entry of the error list
Err(kind, arg) == [kind |-> kind, arg |-> arg]
\* `${error.path.join('.')}: ${error.message}`
SchemaErr(at) == Err("schema", at)
\* `Missing required field: ${keyPath}`
MissingErr(keyPath) == Err("missing", keyPath)
\* "orchestrator field not allowed in normal mode" and its sub_agent twin
NotAllowedErr(field) == Err("not_allowed", field)
\* `Schema validation failed: ${error}`
FailedErr == Err("failed", <<>>)

\* result.error.errors.forEach(error => errors.push(...))
SchemaErrs(issues) == [i \in 1..Len(issues) |-> SchemaErr(issues[i])]

\* the mode-specific step: the errors it pushes, or a raised error
ModeErrors(doc, m) ==
    IF m # "normal" THEN [thrown |-> FALSE, errors |-> <<>>]
    ELSE LET hasOrchestrator == checkForProperty(doc, W("orchestrator"))
             hasSubAgent == checkForProperty(doc, W("sub_agent"))
         IN IF hasOrchestrator.thrown \/ hasSubAgent.thrown
            THEN [thrown |-> TRUE, errors |-> <<>>]
            ELSE [thrown |-> FALSE,
                  errors |->
                    (IF hasOrchestrator.val
                     THEN <<NotAllowedErr(W("orchestrator"))>> ELSE <<>>)
                    \o (IF hasSubAgent.val
                        THEN <<NotAllowedErr(W("sub_agent"))>> ELSE <<>>)]

RECURSIVE RequiredErrors(_, _, _)
\* requiredKeys.forEach(...), from key i on: the errors pushed, and whether
\* a call raised (which ends the loop)
RequiredErrors(doc, keys, i) ==
    IF i > Len(keys) THEN [thrown |-> FALSE, errors |-> <<>>]
    ELSE LET r == hasNestedProperty(doc, keys[i])
             rest == RequiredErrors(doc, keys, i + 1)
         IN IF r.thrown THEN [thrown |-> TRUE, errors |-> <<>>]
            ELSE [thrown |-> rest.thrown,
                  errors |-> (IF r.val THEN <<>> ELSE <<MissingErr(keys[i])>>)
                             \o rest.errors]

\* validateSchema(ctbBlueprint, requiredKeys, mode): the returned errors
validateSchema(doc, keys, m) ==
    LET basic == SchemaErrs(ZodIssues(CTBBlueprintSchema, doc, <<>>))
        modeStep == ModeErrors(doc, m)
        required == RequiredErrors(doc, keys, 1)
    IN IF modeStep.thrown THEN basic \o <<FailedErr>>
       ELSE IF required.thrown
            THEN basic \o modeStep.errors \o required.errors \o <<FailedErr>>
            ELSE basic \o modeStep.errors \o required.errors

----------------------------------------------------------------------------
(* Inputs of validateSchema: CTB documents *)

\* most branches, and most nodes per branch, of a drawn document
MaxBranches == 2
MaxNodes == 2

\* the requiredKeys of renderCTB
RenderKeys ==
    << <<"star", ".", "name">>,
       <<"branches", "[", "]", ".", "name">>,
       <<"branches", "[", "]", ".", "nodes", "[", "]", ".", "label">>,
       <<"branches", "[", "]", ".", "nodes", "[", "]", ".", "IMO", ".", "input">>,
       <<"branches", "[", "]", ".", "nodes", "[", "]", ".", "IMO", ".", "middle">>,
       <<"branches", "[", "]", ".", "nodes", "[", "]", ".", "IMO", ".", "output">>,
       <<"branches", "[", "]", ".", "nodes", "[", "]", ".", "ORBT", ".", "operate">>,
       <<"branches", "[", "]", ".", "nodes", "[", "]", ".", "ORBT", ".", "repair">>,
       <<"branches", "[", "]", ".", "nodes", "[", "]", ".", "ORBT", ".", "build">>,
       <<"branches", "[", "]", ".", "nodes", "[", "]", ".", "ORBT", ".", "train">> >>

\* a list of malformed paths a caller may pass as well
MalformedKeys ==
    << <<>>, <<"[", "]">>, <<"star", ".", ".", "name">>,
       <<"branches", "[", "]", "x">>, <<".", "star">>,
       <<"branches", "[", "]", ".", "[", "]">> >>

\* a node, a branch and a document in which every required field is filled
GoodNode ==
    Obj((W("label") :> S("x"))
        @@ (W("IMO") :> Obj((W("input") :> S("x")) @@ (W("middle") :> S("x"))
                            @@ (W("output") :> S("x"))))
        @@ (W("ORBT") :> Obj((W("operate") :> S("x")) @@ (W("repair") :> S("x"))
                             @@ (W("build") :> S("x")) @@ (W("train") :> S("x")))))
GoodBranch(n) ==
    Obj((W("name") :> S("x")) @@ (W("nodes") :> Arr([i \in 1..n |-> GoodNode])))
GoodDoc(b, n) ==
    Obj((W("star") :> Obj((W("name") :> S("x"))))
        @@ (W("branches") :> Arr([i \in 1..b |-> GoodBranch(n)])))

\* one step of a pointer into a document: a key, or an array index
KeyStep(k) == [key |-> k, idx |-> 0]
IdxStep(i) == [key |-> <<>>, idx |-> i]

RECURSIVE Pointers(_)
\* the pointers to every value inside x (x itself excluded)
Pointers(x) ==
    IF x.t = "obj"
    THEN UNION {{<<KeyStep(k)>>} \cup {<<KeyStep(k)>> \o p : p \in Pointers(x.v[k])}
                : k \in DOMAIN x.v}
    ELSE IF x.t = "arr"
    THEN UNION {{<<IdxStep(i)>>} \cup {<<IdxStep(i)>> \o p : p \in Pointers(x.v[i])}
                : i \in 1..Len(x.v)}
    ELSE {}

\* a sequence without its element i
Without(a, i) == SubSeq(a, 1, i - 1) \o SubSeq(a, i + 1, Len(a))

RECURSIVE Put(_, _, _)
\* x with the value at pointer p replaced by y; y = Undefined deletes the
\* key or the array element
Put(x, p, y) ==
    IF Len(p) = 0 THEN y
    ELSE IF x.t = "obj"
    THEN LET k == p[1].key
             sub == Put(Get(x, k), Tail(p), y)
         IN IF sub = Undefined
            THEN Obj([j \in DOMAIN x.v \ {k} |-> x.v[j]])
            ELSE Obj((k :> sub) @@ x.v)
    ELSE LET i == p[1].idx
             sub == Put(x.v[i], Tail(p), y)
         IN IF sub = Undefined THEN Arr(Without(x.v, i))
            ELSE Arr([x.v EXCEPT ![i] = sub])

\* what a defect puts in the place of a value
Defects ==
    {Undefined, Null, Str(<<>>), Num(0), Arr(<<>>), EmptyObj}

\* a good document with one more field somewhere
Extras ==
    {Put(GoodDoc(1, 1), <<KeyStep(W("hasOwnProperty"))>>, Num(1)),
     Put(GoodDoc(1, 1), <<KeyStep(W("branches")), IdxStep(1), KeyStep(W("nodes")),
                          IdxStep(1), KeyStep(W("orchestrator"))>>, S("x")),
     Put(GoodDoc(1, 1), <<KeyStep(W("branches")), IdxStep(1), KeyStep(W("nodes")),
                          IdxStep(1), KeyStep(W("sub_agent"))>>, S("x")),
     Put(GoodDoc(1, 1), <<KeyStep(W("branches")), IdxStep(1),
                          KeyStep(W("sub_branches"))>>, Arr(<<GoodBranch(1)>>)),
     Put(GoodDoc(1, 1), <<KeyStep(W("branches")), IdxStep(1),
                          KeyStep(W("sub_branches"))>>,
         Arr(<<Obj((W("name") :> S("x")))>>))}

\* the good documents, each of them with one defect at one place, the extras
\* and roots that are no objects
CTBDocs ==
    LET good == {GoodDoc(b, n) : b \in 1..MaxBranches, n \in 1..MaxNodes}
    IN good
       \cup UNION {{Put(g, p, d) : p \in Pointers(g), d \in Defects} : g \in good}
       \cup Extras
       \cup {Null, S("x"), Num(1), Arr(<<>>), EmptyObj}

----------------------------------------------------------------------------
(* Specification of validateSchema: one call on drawn arguments *)

InitSchema ==
    /\ ctbBlueprint \in CTBDocs
    /\ requiredKeys \in {RenderKeys, MalformedKeys}
    /\ mode \in {"normal", "garage-mcp"}
    /\ schemaErrors = NotValidated
    /\ PathIdle
    /\ ScoreIdle
    /\ ValidateIdle
    /\ RestIdle

\* builder.validateSchema(ctbBlueprint, requiredKeys, mode)
ValidateSchema ==
    /\ ~schemaErrors.called
    /\ schemaErrors' =
          [called |-> TRUE,
           errors |-> validateSchema(ctbBlueprint, requiredKeys, mode)]
    /\ UNCHANGED <<ctbBlueprint, requiredKeys, mode, pathVars, scoreVars,
                   validateVars, restVars>>

NextSchema == ValidateSchema

SpecSchema == InitSchema /\ [][NextSchema]_vars

----------------------------------------------------------------------------
(* Claims about validateSchema *)

\* how many entries of a list equal e
Count(a, e) == Cardinality({i \in 1..Len(a) : a[i] = e})

\* C3 as claimed: on any root and any path, malformed ones included, the
\* path checker ends with a boolean and raises nothing, and validateSchema
\* turns each false into exactly one 'Missing required field' entry.
C3_BooleanAndOneEntryPerFalse ==
    schemaErrors.called =>
        \A i \in 1..Len(requiredKeys) :
            LET r == hasNestedProperty(ctbBlueprint, requiredKeys[i])
            IN /\ ~r.thrown
               /\ Count(schemaErrors.errors, MissingErr(requiredKeys[i]))
                     = (IF r.val THEN 0 ELSE 1)

\* a value that is present and not empty
NonEmpty(x) ==
    /\ x.t \notin {"undefined", "null"}
    /\ x \notin {Str(<<>>), Arr(<<>>), EmptyObj}

\* an object holding a non-empty value under each of the keys
Filled(x, keys) ==
    x.t = "obj" /\ \A k \in keys : k \in DOMAIN x.v /\ NonEmpty(x.v[k])

\* a non-empty array held under key k of x
ListOf(x, k) ==
    IF x.t = "obj" /\ k \in DOMAIN x.v /\ IsArray(x.v[k]) THEN x.v[k].v
    ELSE <<>>

\* every required path of renderCTB resolves to a non-empty value: the star
\* has a name, there is a branch, every branch has a name and a node, every
\* node a label, the three IMO fields and the four ORBT fields
Compliant(doc) ==
    /\ Filled(doc, {W("star"), W("branches")})
    /\ Filled(doc.v[W("star")], {W("name")})
    /\ ListOf(doc, W("branches")) # <<>>
    /\ \A b \in 1..Len(ListOf(doc, W("branches"))) :
         LET branch == ListOf(doc, W("branches"))[b]
         IN /\ Filled(branch, {W("name"), W("nodes")})
            /\ ListOf(branch, W("nodes")) # <<>>
            /\ \A n \in 1..Len(ListOf(branch, W("nodes"))) :
                 LET node == ListOf(branch, W("nodes"))[n]
                 IN /\ Filled(node, {W("label"), W("IMO"), W("ORBT")})
                    /\ Filled(node.v[W("IMO")],
                              {W("input"), W("middle"), W("output")})
                    /\ Filled(node.v[W("ORBT")],
                              {W("operate"), W("repair"), W("build"), W("train")})

\* C4: on a document in which every required path of renderCTB resolves to
\* a non-empty value, the path checker returns true for each of the ten
\* paths and validateSchema reports no 'Missing required field' error.
C4_CompliantHasNoMissingField ==
    (schemaErrors.called /\ requiredKeys = RenderKeys /\ Compliant(ctbBlueprint)) =>
        /\ \A i \in 1..Len(RenderKeys) :
               hasNestedProperty(ctbBlueprint, RenderKeys[i]) = Returned(TRUE)
        /\ \A j \in 1..Len(schemaErrors.errors) :
               schemaErrors.errors[j].kind # "missing"

\* C4 witness: a compliant document of two branches of two nodes each was
\* validated against the ten paths and no error at all came back
C4_Witness ==
    /\ schemaErrors.called /\ requiredKeys = RenderKeys
    /\ Compliant(ctbBlueprint)
    /\ Len(ListOf(ctbBlueprint, W("branches"))) = 2
    /\ Len(ListOf(ListOf(ctbBlueprint, W("branches"))[2], W("nodes"))) = 2
    /\ schemaErrors.errors = <<>>

----------------------------------------------------------------------------
(* IEEE-754 double arithmetic of  Math.round((filled / total) * 100)       *)
(* A positive double is [bits, exp]: its 53 significant bits, most          *)
(* significant first, and the binary weight of the last of them.            *)

Precision == 53

\* the w low binary digits of a natural number below 2^30
BitsOf(n, w) == [i \in 1..w |-> (n \div (2 ^ (w - i))) % 2]

\* the binary digits of a natural number below 2^30, none for 0
ToBits(n) ==
    BitsOf(n, CHOOSE w \in 0..30 : n < 2 ^ w /\ (w = 0 \/ n >= 2 ^ (w - 1)))

RECURSIVE ToInt(_)
\* the natural number a sequence of at most 30 binary digits denotes, its
\* halves taken apart
ToInt(b) ==
    IF b = <<>> THEN 0
    ELSE IF Len(b) = 1 THEN b[1]
    ELSE LET h == Len(b) \div 2
         IN ToInt(SubSeq(b, 1, h)) * (2 ^ (Len(b) - h))
            + ToInt(SubSeq(b, h + 1, Len(b)))

\* 2^n modulo t for n up to 90, in factors that stay below 2^31
Pow2Mod(n, t) ==
    LET part(k) == (2 ^ k) % t
        lowest == IF n > 30 THEN 30 ELSE n
        middle == IF n > 60 THEN 30 ELSE n - lowest
    IN (((part(lowest) * part(middle)) % t) * part(n - lowest - middle)) % t

\* the remainder left after n binary digits of r / t (r < t)
FracRem(r, t, n) == (r * Pow2Mod(n, t)) % t

\* the next n binary digits of r / t, for a remainder r < t
FracBits(r, t, n) == [i \in 1..n |-> (2 * FracRem(r, t, i - 1)) \div t]

RECURSIVE LeadingZeros(_, _)
\* how many zero digits r / t starts with after the binary point (0 < r < t)
LeadingZeros(r, t) == IF 2 * r >= t THEN 0 ELSE 1 + LeadingZeros(2 * r, t)

Zeros(n) == [i \in 1..n |-> 0]

\* a digit sequence plus one (it grows by a digit when all digits are 1)
Increment(b) ==
    IF \A i \in 1..Len(b) : b[i] = 1 THEN <<1>> \o Zeros(Len(b))
    ELSE LET z == CHOOSE i \in 1..Len(b) :
                      b[i] = 0 /\ \A j \in (i + 1)..Len(b) : b[j] = 1
         IN SubSeq(b, 1, z - 1) \o <<1>> \o Zeros(Len(b) - z)

\* round to nearest, ties to even: the kept digits, then the first dropped
\* digit and whether anything non-zero follows it; exp is the weight of the
\* last kept digit
RoundNearestEven(kept, guard, sticky, exp) ==
    IF guard = 1 /\ (sticky \/ kept[Len(kept)] = 1)
    THEN LET up == Increment(kept)
         IN IF Len(up) > Len(kept)
            THEN [bits |-> SubSeq(up, 1, Len(kept)), exp |-> exp + 1]
            ELSE [bits |-> up, exp |-> exp]
    ELSE [bits |-> kept, exp |-> exp]

\* filled / total as a double (filled > 0, total > 0)
DoubleDivide(f, t) ==
    LET int == ToBits(f \div t)
        r == f % t
        z == IF int = <<>> /\ r > 0 THEN LeadingZeros(r, t) ELSE 0
        r0 == FracRem(r, t, z)
        n == Precision - Len(int)
        kept == int \o FracBits(r0, t, n)
        guard == (2 * FracRem(r0, t, n)) \div t
        sticky == FracRem(r0, t, n + 1) # 0
    IN RoundNearestEven(kept, guard, sticky, 0 - (z + n))

\* a significand is taken in three limbs of LimbBits digits
LimbBits == (Precision + 2) \div 3

\* x * 100 as a double: the exact product, limb by limb with the carries,
\* then rounded
DoubleTimes100(x) ==
    LET len == Len(x.bits)
        limb0 == ToInt(SubSeq(x.bits, len - LimbBits + 1, len))
        limb1 == ToInt(SubSeq(x.bits, len - 2 * LimbBits + 1, len - LimbBits))
        limb2 == ToInt(SubSeq(x.bits, 1, len - 2 * LimbBits))
        p0 == limb0 * 100
        p1 == limb1 * 100 + (p0 \div (2 ^ LimbBits))
        p2 == limb2 * 100 + (p1 \div (2 ^ LimbBits))
        prod == ToBits(p2) \o BitsOf(p1 % (2 ^ LimbBits), LimbBits)
                \o BitsOf(p0 % (2 ^ LimbBits), LimbBits)
        drop == Len(prod) - Precision
    IN RoundNearestEven(SubSeq(prod, 1, Precision), prod[Precision + 1],
                        \E i \in (Precision + 2)..Len(prod) : prod[i] = 1,
                        x.exp + drop)

\* Math.round of a positive double below 2^53: the nearest integer, a tie
\* going up
MathRound(x) ==
    LET intLen == Len(x.bits) + x.exp
    IN IF intLen < 0 THEN 0
       ELSE ToInt(SubSeq(x.bits, 1, intLen)) + x.bits[intLen + 1]

\* totalFields > 0 ? Math.round((filledFields / totalFields) * 100) : 0
RoundPercent(filledFields, totalFields) ==
    IF totalFields > 0
    THEN (IF filledFields = 0 THEN 0
          ELSE MathRound(DoubleTimes100(DoubleDivide(filledFields, totalFields))))
    ELSE 0

----------------------------------------------------------------------------
(* The completeness scorers: BlueprintValidator.calculateCompleteness and  *)
(* WhimsicalExporter.calculateCompleteness.  The counters totalFields and  *)
(* filledFields of a call are threaded through the visit of each entry.    *)

\* the placeholder markers 'your-' and '...', character by character
YourDash == <<"y", "o", "u", "r", "-">>
Ellipsis == <<".", ".", ".">>

\* let totalFields = 0, let filledFields = 0
NoFields == [thrown |-> FALSE, totalFields |-> 0, filledFields |-> 0]

\* totalFields++, and filledFields++ when the field is filled
CountField(c, filled) ==
    [c EXCEPT !.totalFields = @ + 1,
              !.filledFields = IF filled THEN @ + 1 ELSE @]

\* as a faulty scorer would: an array is filled when an element of it is
ArrayFilledByElement(value) == \E i \in 1..Len(value.v) : Truthy(value.v[i])

\* value.length > 0
ArrayFilled(value) == Len(value.v) > 0

\* as a faulty scorer would: the test on the string negated
StringFilledNegated(value) == ~Truthy(value)

\* value && !value.includes('your-') && !value.includes('...')
StringFilled(value) ==
    /\ Truthy(value)
    /\ ~Includes(value.v, YourDash)
    /\ ~Includes(value.v, Ellipsis)

\* Object.entries(obj), the values only: of an object, an array or a string;
\* a number or a boolean has none
EntryValues(obj) ==
    CASE obj.t \in {"obj", "arr"} -> ObjectValues(obj)
      [] obj.t = "str" -> [i \in 1..Len(obj.v) |-> Str(<<obj.v[i]>>)]
      [] OTHER -> <<>>

RECURSIVE checkCompleteness(_, _)
RECURSIVE forEachEntry(_, _, _)

\* the body of the validator's forEach callback for one entry
visitEntry(value, c) ==
    IF IsArray(value) THEN CountField(c, ArrayFilled(value))
    ELSE IF value.t = "str" THEN CountField(c, StringFilled(value))
    ELSE IF value.t = "obj" THEN checkCompleteness(value, c)
    ELSE CountField(c, value.t \notin {"null", "undefined"})

\* Object.entries(obj).forEach(...), from entry i on
forEachEntry(entries, i, c) ==
    IF i > Len(entries) THEN c
    ELSE forEachEntry(entries, i + 1, visitEntry(entries[i], c))

\* the validator's checkCompleteness(obj); Object.entries raises a TypeError
\* on undefined and on null, which ends calculateCompleteness
checkCompleteness(obj, c) ==
    IF c.thrown THEN c
    ELSE IF GetThrows(obj) THEN [c EXCEPT !.thrown = TRUE]
    ELSE forEachEntry(EntryValues(obj), 1, c)

\* what a scorer returns for its counters
Scored(c) ==
    [called |-> TRUE, thrown |-> c.thrown,
     totalFields |-> c.totalFields, filledFields |-> c.filledFields,
     percent |-> IF c.thrown THEN 0
                 ELSE RoundPercent(c.filledFields, c.totalFields)]

\* BlueprintValidator.calculateCompleteness(bp) for an object bp
calculateCompleteness(bp) ==
    Scored(checkCompleteness(Get(bp, W("visual_embedding")),
           checkCompleteness(Get(bp, W("notion_links")),
           checkCompleteness(Get(bp, W("altitudes")), NoFields))))

RECURSIVE exporterCheckCompleteness(_, _)
RECURSIVE exporterForEachEntry(_, _, _)

\* the body of the exporter's forEach callback for one entry
exporterVisitEntry(value, c) ==
    IF IsArray(value) THEN CountField(c, ArrayFilled(value))
    ELSE IF value.t = "str" THEN CountField(c, StringFilled(value))
    ELSE IF value.t = "obj" THEN exporterCheckCompleteness(value, c)
    ELSE c

exporterForEachEntry(entries, i, c) ==
    IF i > Len(entries) THEN c
    ELSE exporterForEachEntry(entries, i + 1, exporterVisitEntry(entries[i], c))

\* the exporter's checkCompleteness(obj)
exporterCheckCompleteness(obj, c) ==
    IF c.thrown THEN c
    ELSE IF GetThrows(obj) THEN [c EXCEPT !.thrown = TRUE]
    ELSE exporterForEachEntry(EntryValues(obj), 1, c)

\* WhimsicalExporter.calculateCompleteness(bp) for an object bp
exporterCalculateCompleteness(bp) ==
    Scored(exporterCheckCompleteness(Get(bp, W("altitudes")), NoFields))

----------------------------------------------------------------------------
(* Blueprints handed to the scorers *)

MaxFields == 40
GroupSize == 8

\* the values a field holds: empty, filled and placeholder strings, strings
\* that nearly hold a marker, arrays, numbers, booleans and null
ScoreLeaves ==
    {Str(<<>>), Str(<<"X">>), Str(YourDash \o <<"x">>), Str(<<"a">> \o Ellipsis),
     Str(<<"y", "o", "u", "r">>), Str(<<".", ".">>),
     Arr(<<>>), Arr(<<Str(<<>>)>>), Arr(<<Obj(W("name") :> Str(<<>>))>>),
     Num(0), Num(5), Bool(FALSE), Null}

\* the object held under one altitude
AltitudeObjs ==
    {EmptyObj}
    \cup {Obj(W("project_name") :> l) : l \in ScoreLeaves}
    \cup {Obj(W("project_name") :> l1 @@ W("objective") :> l2) :
            l1 \in {Str(<<"X">>), Str(<<>>)}, l2 \in ScoreLeaves}
    \cup {Obj(W("agent_roles") :> Obj(W("claude") :> l)) : l \in ScoreLeaves}

SmallAltitudes ==
    {Obj(W("30000") :> a) : a \in AltitudeObjs \cup ScoreLeaves}
    \cup {Obj(W("30000") :> a1 @@ W("20000") :> a2) :
            a1 \in {Obj(W("project_name") :> Str(<<"X">>)),
                    Obj(W("project_name") :> Str(<<>>))},
            a2 \in AltitudeObjs}

\* n fields under altitudes, GroupSize of them to an altitude, the first f
\* of them filled
WideAltitudes(n, f) ==
    Obj([g \in {W(ToString(j)) : j \in 1..((n + GroupSize - 1) \div GroupSize)} |->
           Obj([k \in {W(ToString(i)) :
                         i \in {i \in 1..n : W(ToString((i + GroupSize - 1)
                                                        \div GroupSize)) = g}} |->
                  IF \E i \in 1..f : W(ToString(i)) = k
                  THEN Str(<<"X">>) ELSE Str(<<>>)])])

\* a blueprint with the three subtrees calculateCompleteness reads
Blueprint(altitudes, links, embedding) ==
    Obj(W("altitudes") :> altitudes @@ W("notion_links") :> links
        @@ W("visual_embedding") :> embedding)

Blueprints ==
    {Blueprint(a, EmptyObj, EmptyObj) : a \in SmallAltitudes}
    \cup {Blueprint(a, Obj(W("project_page") :> Str(<<>>)),
                    Obj(W("preferred_height_px") :> Num(600))) :
            a \in SmallAltitudes}
    \cup {Obj(W("altitudes") :> a) : a \in SmallAltitudes}
    \cup UNION {{Blueprint(WideAltitudes(n, f), EmptyObj, EmptyObj) :
                    f \in 0..n} : n \in 1..MaxFields}

----------------------------------------------------------------------------
(* The scorers at work *)

InitScore ==
    /\ blueprint \in Blueprints
    /\ validatorScore = NotScored
    /\ exporterScore = NotScored
    /\ PathIdle
    /\ SchemaIdle
    /\ ValidateIdle
    /\ RestIdle

\* validator.calculateCompleteness(blueprint)
CalculateCompleteness ==
    /\ ~validatorScore.called
    /\ validatorScore' = calculateCompleteness(blueprint)
    /\ UNCHANGED <<blueprint, exporterScore, pathVars, schemaVars, validateVars, restVars>>

\* exporter.calculateCompleteness(blueprint)
ExporterCalculateCompleteness ==
    /\ ~exporterScore.called
    /\ exporterScore' = exporterCalculateCompleteness(blueprint)
    /\ UNCHANGED <<blueprint, validatorScore, pathVars, schemaVars, validateVars, restVars>>

NextScore == CalculateCompleteness \/ ExporterCalculateCompleteness

SpecScore == InitScore /\ [][NextScore]_vars

----------------------------------------------------------------------------
(* Claims about the completeness scorers *)

RECURSIVE FieldPaths(_)
\* the key paths that lead from an object through objects only to a value
\* that is no object: its fields
FieldPaths(x) ==
    IF x.t # "obj" THEN {<<>>}
    ELSE UNION {{<<k>> \o p : p \in FieldPaths(x.v[k])} : k \in DOMAIN x.v}

\* the part of an object under some of its keys
Subtrees(x, keys) == Obj([k \in keys \cap DOMAIN x.v |-> x.v[k]])

ValidatorKeys == {W("altitudes"), W("notion_links"), W("visual_embedding")}
ExporterKeys == {W("altitudes")}

\* the fields of x that hold a value of one of the types
FieldsOf(x, types) == {p \in FieldPaths(x) : ValueAt(x, p).t \in types}

OtherTypes == {"num", "bool", "null", "undefined"}

\* a string neither empty nor holding a placeholder marker
Meaningful(s) == s # <<>> /\ ~Includes(s, YourDash) /\ ~Includes(s, Ellipsis)

\* the total and the filled count of the rule: every string, array and other
\* field counts; a string is filled when meaningful, an array when it has an
\* element, another value when it is not null
RuleTotal(x) == Cardinality(FieldsOf(x, {"str", "arr"} \cup OtherTypes))
RuleFilled(x) ==
    Cardinality({p \in FieldsOf(x, {"str"}) : Meaningful(ValueAt(x, p).v)})
    + Cardinality({p \in FieldsOf(x, {"arr"}) : Len(ValueAt(x, p).v) >= 1})
    + Cardinality(FieldsOf(x, {"num", "bool"}))

\* C5: the validator's scorer descends through plain objects only; every
\* string and every array it meets there is one field of the total, a string
\* filled unless empty or holding "your-" or "...", an array filled iff it
\* has an element, whatever the element is.
C5_StringsAndArraysAreLeaves ==
    validatorScore.called /\ ~validatorScore.thrown =>
        /\ validatorScore.totalFields = RuleTotal(Subtrees(blueprint, ValidatorKeys))
        /\ validatorScore.filledFields = RuleFilled(Subtrees(blueprint, ValidatorKeys))

\* C5 witness: a filled string beside an array whose only element is an
\* object with an empty field: two fields, both filled.
C5_Witness ==
    /\ validatorScore.called /\ ~validatorScore.thrown
    /\ ValueAt(blueprint, <<W("altitudes"), W("30000"), W("objective")>>)
          = Arr(<<Obj(W("name") :> Str(<<>>))>>)
    /\ validatorScore.totalFields = 2
    /\ validatorScore.filledFields = 2

\* C6 as claimed: in the validator's scorer and in the exporter's, a number,
\* a boolean or null is one field of the total, filled iff not null, so both
\* return the same percentage for the same altitudes subtree.
C6_BothScorersCountOtherLeaves ==
    /\ validatorScore.called /\ ~validatorScore.thrown =>
          /\ validatorScore.totalFields
                = RuleTotal(Subtrees(blueprint, ValidatorKeys))
          /\ validatorScore.filledFields
                = RuleFilled(Subtrees(blueprint, ValidatorKeys))
    /\ exporterScore.called /\ ~exporterScore.thrown =>
          /\ exporterScore.totalFields
                = RuleTotal(Subtrees(blueprint, ExporterKeys))
          /\ exporterScore.filledFields
                = RuleFilled(Subtrees(blueprint, ExporterKeys))
    /\ ( /\ validatorScore.called /\ ~validatorScore.thrown
         /\ exporterScore.called /\ ~exporterScore.thrown
         /\ Get(blueprint, W("notion_links")) = EmptyObj
         /\ Get(blueprint, W("visual_embedding")) = EmptyObj )
       => validatorScore.percent = exporterScore.percent

\* round(100 * filled / total), a tie going up, in integers
RoundedPercent(filled, total) == (200 * filled + total) \div (2 * total)

\* the example of C7: {"30000": {project_name: "X", objective: ""}}
ExampleAltitudes ==
    Obj(W("30000") :> Obj(W("project_name") :> Str(<<"X">>)
                          @@ W("objective") :> Str(<<>>)))

\* C7 as claimed: the percentage is round(100 * filled / total), 0 when the
\* total is 0; filled never exceeds total, so it is an integer from 0 to
\* 100; the example scores 50 with total 2 and filled 1.
C7_PercentIsRoundedRatio ==
    validatorScore.called /\ ~validatorScore.thrown =>
        /\ validatorScore.filledFields <= validatorScore.totalFields
        /\ validatorScore.percent \in 0..100
        /\ validatorScore.percent
              = IF validatorScore.totalFields = 0 THEN 0
                ELSE RoundedPercent(validatorScore.filledFields,
                                    validatorScore.totalFields)
        /\ blueprint = Blueprint(ExampleAltitudes, EmptyObj, EmptyObj) =>
              /\ validatorScore.totalFields = 2
              /\ validatorScore.filledFields = 1
              /\ validatorScore.percent = 50

RECURSIVE ValueAtPointer(_, _)
\* the value a pointer leads to
ValueAtPointer(x, p) ==
    IF Len(p) = 0 THEN x
    ELSE IF x.t = "obj" THEN ValueAtPointer(x.v[p[1].key], Tail(p))
    ELSE ValueAtPointer(x.v[p[1].idx], Tail(p))

\* the empty strings of a document, wherever they are
EmptyStrings(x) == {p \in Pointers(x) : ValueAtPointer(x, p) = Str(<<>>)}

\* non-empty strings without a placeholder marker
FillStrings == {<<"X">>, <<".", ".">>}

\* C8: once the scorers have scored a document, each of them gives no lower
\* percentage to the document with one of its empty strings replaced by a
\* non-empty string holding neither "your-" nor "...".
C8_FillingNeverLowers ==
    validatorScore.called /\ exporterScore.called =>
        \A p \in EmptyStrings(blueprint) : \A s \in FillStrings :
            LET filled == Put(blueprint, p, Str(s))
            IN /\ ~validatorScore.thrown =>
                     calculateCompleteness(filled).percent
                         >= validatorScore.percent
               /\ ~exporterScore.thrown =>
                     exporterCalculateCompleteness(filled).percent
                         >= exporterScore.percent

\* C8 witness: both scorers have scored a document with an empty string
\* field, and filling it raises the validator's percentage.
C8_Witness ==
    /\ validatorScore.called /\ ~validatorScore.thrown
    /\ exporterScore.called /\ ~exporterScore.thrown
    /\ \E p \in EmptyStrings(blueprint) :
          calculateCompleteness(Put(blueprint, p, Str(<<"X">>))).percent
              > validatorScore.percent

----------------------------------------------------------------------------
(* The CTB schema of lib/ctbSchema.ts *)

ZStrings == ZArray(ZString)

\* const HEIRSchema
HEIRSchema ==
    ZObject(<<
        <<W("name"), ZString>>, <<W("acronym"), ZString>>,
        <<W("description"), ZString>>,
        <<W("render_hints"),
          ZOptional(ZObject(<< <<W("style"), ZString>>, <<W("badge"), ZString>>,
                               <<W("legend"), ZBoolean>> >>))>> >>)

\* const IMOMiddleSchema
IMOMiddleSchema ==
    ZObject(<<
        <<W("orchestration"),
          ZObject(<< <<W("orchestrator"), ZString>>,
                     <<W("subagents"), ZOptional(ZStrings)>>,
                     <<W("tools"), ZStrings>>, <<W("playbook"), ZStrings>> >>)>>,
        <<W("operations"),
          ZArray(ZObject(<< <<W("title"), ZString>>, <<W("tool"), ZString>>,
                            <<W("computation"), ZString>>,
                            <<W("inputs"), ZOptional(ZStrings)>>,
                            <<W("outputs"), ZOptional(ZStrings)>> >>))>>,
        <<W("contracts"),
          ZObject(<< <<W("preconditions"), ZStrings>>,
                     <<W("postconditions"), ZStrings>>,
                     <<W("io_contracts"),
                       ZOptional(ZObject(<<
                           <<W("input_contract"), ZOptional(ZStrings)>>,
                           <<W("output_contract"), ZOptional(ZStrings)>> >>))>> >>)>>,
        <<W("promotion"),
          ZObject(<< <<W("gate"), ZBoolean>>, <<W("rules"), ZStrings>>,
                     <<W("destinations"), ZStrings>>,
                     <<W("human_firebreak"), ZBoolean>> >>)>>,
        <<W("failure"),
          ZObject(<< <<W("failure_modes"), ZStrings>>, <<W("retries"), ZNumber>>,
                     <<W("fallback_plan"), ZStrings>>,
                     <<W("incident_log"), ZString>> >>)>>,
        <<W("observability"),
          ZObject(<< <<W("metrics"), ZStrings>>, <<W("logs"), ZStrings>>,
                     <<W("trace_fields"), ZStrings>> >>)>>,
        <<W("tempo_sla"), ZOptional(ZString)>> >>)

\* const IMOSchema
IMOSchema ==
    ZObject(<< <<W("input"), ZStrings>>, <<W("middle"), IMOMiddleSchema>>,
               <<W("output"), ZStrings>> >>)

\* const ORBTSchema
ORBTSchema ==
    ZObject(<< <<W("operate"), ZStrings>>, <<W("repair"), ZStrings>>,
               <<W("build"), ZStrings>>, <<W("train"), ZStrings>> >>)

\* const CARBSchema
CARBSchema ==
    ZObject(<< <<W("compliance"), ZStrings>>, <<W("automation"), ZStrings>>,
               <<W("repair"), ZStrings>>, <<W("blueprint"), ZStrings>> >>)

\* links: z.object({...}) of a node
NodeLinksSchema ==
    ZObject(<< <<W("repo"), ZUrl>>, <<W("render_endpoint"), ZUrl>>,
               <<W("firebase_doc"), ZOptional(ZString)>>,
               <<W("neon_table"), ZOptional(ZString)>> >>)

\* const NodeSchema
NodeSchema ==
    ZObject(<<
        <<W("id"), ZString>>, <<W("label"), ZString>>, <<W("altitude"), ZString>>,
        <<W("orientation"), ZLiteral(W("vertical"))>>,
        <<W("IMO"), IMOSchema>>, <<W("ORBT"), ORBTSchema>>,
        <<W("CARB"), ZOptional(CARBSchema)>>,
        <<W("links"), ZOptional(NodeLinksSchema)>>,
        <<W("badges"), ZOptional(ZStrings)>> >>)

\* render_hints: z.object({icon: z.string()})
IconHints == ZObject(<< <<W("icon"), ZString>> >>)

\* const BranchSchema
BranchSchema ==
    ZObject(<<
        <<W("id"), ZString>>, <<W("name"), ZString>>, <<W("altitude"), ZString>>,
        <<W("render_hints"), IconHints>>,
        <<W("nodes"), ZArray(NodeSchema)>> >>)

\* const StarSchema
StarSchema ==
    ZObject(<<
        <<W("id"), ZString>>, <<W("name"), ZString>>, <<W("altitude"), ZString>>,
        <<W("tagline"), ZString>>,
        <<W("render_hints"),
          ZObject(<< <<W("icon"), ZString>>, <<W("emphasis"), ZBoolean>> >>)>> >>)

\* one of the three stores of SchemasSchema: its sample list under key
\* `samples`, each sample naming `what` and its `keys`
StoreSchema(samples, what, keys) ==
    ZObject(<<
        <<W("name"), ZString>>,
        <<W(samples),
          ZOptional(ZArray(ZObject(<< <<W(what), ZString>>,
                                      <<W(keys), ZStrings>> >>)))>>,
        <<W("render_hints"), ZOptional(IconHints)>> >>)

\* const SchemasSchema
SchemasSchema ==
    ZObject(<<
        <<W("neon"), StoreSchema("sample_tables", "table", "key_columns")>>,
        <<W("firebase"),
          StoreSchema("sample_collections", "collection", "key_fields")>>,
        <<W("bigquery"),
          StoreSchema("sample_datasets", "dataset", "key_fields")>> >>)

\* const LegendSchema
LegendSchema ==
    ZObject(<<
        <<W("altitudes"),
          ZArray(ZObject(<< <<W("label"), ZString>>,
                            <<W("description"), ZString>> >>))>>,
        <<W("acronyms"), ZRecord(ZString)>> >>)

\* const ConstraintsSchema
ConstraintsSchema ==
    ZObject(<<
        <<W("require_heir_canopy"), ZBoolean>>,
        <<W("require_vertical_imo"), ZBoolean>>,
        <<W("require_orbt_per_node"), ZBoolean>>,
        <<W("require_middle_operations"), ZBoolean>>,
        <<W("require_schemas_base"), ZBoolean>>,
        <<W("allow_carb_optional"), ZBoolean>> >>)

\* meta, render_hints and telemetry of the main schema
CTBMetaSchema ==
    ZObject(<< <<W("spec_version"), ZString>>, <<W("doctrine_lock"), ZBoolean>>,
               <<W("notes"), ZStrings>> >>)
RenderHintsSchema ==
    ZObject(<<
        <<W("layout"), ZString>>, <<W("imo_stack_style"), ZString>>,
        <<W("branch_alignment"), ZString>>,
        <<W("schema_band_position"), ZString>>,
        <<W("colors"), ZRecord(ZString)>>,
        <<W("emphasis"),
          ZObject(<< <<W("middle_column_scale"), ZNumber>>,
                     <<W("middle_highlight"), ZBoolean>> >>)>> >>)
TelemetrySchema ==
    ZObject(<< <<W("trace_id"), ZString>>, <<W("version_hash"), ZString>>,
               <<W("timestamp_iso"), ZString>> >>)

\* export const CTBSchema
CTBSchema ==
    ZObject(<<
        <<W("meta"), CTBMetaSchema>>, <<W("heir"), HEIRSchema>>,
        <<W("star"), StarSchema>>, <<W("branches"), ZArray(BranchSchema)>>,
        <<W("schemas"), SchemasSchema>>, <<W("legend"), LegendSchema>>,
        <<W("constraints"), ConstraintsSchema>>,
        <<W("render_hints"), RenderHintsSchema>>,
        <<W("telemetry"), TelemetrySchema>> >>)

----------------------------------------------------------------------------
(* CTBValidator of scripts/validate-ctb.ts *)

\* this.result.errors.push(e), this.result.warnings.push(w) and
\* this.result.doctrineChecks[check] = b
PushError(r, e) == [r EXCEPT !.errors = Append(@, e)]
PushWarning(r, w) == [r EXCEPT !.warnings = Append(@, w)]
SetCheck(r, check, b) == [r EXCEPT !.doctrineChecks[check] = b]
PushErrorIf(cond, r, e) == IF cond THEN PushError(r, e) ELSE r

\* x?.key
OptGet(x, key) == IF GetThrows(x) THEN Undefined ELSE Get(x, key)

RECURSIVE TemplateText(_)
RECURSIVE JoinText(_, _)
\* `${x}`: the text a template literal makes of a value
TemplateText(x) ==
    CASE x.t = "str" -> x.v
      [] x.t = "undefined" -> <<"undefined">>
      [] x.t = "null" -> <<"null">>
      [] x.t = "num" -> <<ToString(x.v)>>
      [] x.t = "bool" -> IF x.v THEN <<"true">> ELSE <<"false">>
      [] x.t = "arr" -> JoinText(x.v, 1)
      [] OTHER -> <<"[object Object]">>

\* Array.prototype.join(','), from element i on; null and undefined give ''
JoinText(items, i) ==
    IF i > Len(items) THEN <<>>
    ELSE (IF i > 1 THEN <<",">> ELSE <<>>)
         \o (IF GetThrows(items[i]) THEN <<>> ELSE TemplateText(items[i]))
         \o JoinText(items, i + 1)

\* `DOCTRINE: Node ${node.label} ...` and the other messages about a node
NodeErr(kind, node) == Err(kind, TemplateText(Get(node, W("label"))))

\* one step of blueprint.branches?.forEach(branch =>
\* branch.nodes?.forEach(node => ...)): a node, or the TypeError raised when
\* branches or nodes is no array, or a branch is null
WalkNode(node) == [throws |-> FALSE, node |-> node]
WalkThrows == [throws |-> TRUE, node |-> Null]

\* the steps of branch.nodes?.forEach for one branch
BranchWalk(branch) ==
    IF GetThrows(branch) THEN <<WalkThrows>>
    ELSE LET nodes == Get(branch, W("nodes"))
         IN IF GetThrows(nodes) THEN <<>>
            ELSE IF ~IsArray(nodes) THEN <<WalkThrows>>
            ELSE [i \in 1..Len(nodes.v) |-> WalkNode(nodes.v[i])]

RECURSIVE BranchesWalk(_, _)
BranchesWalk(branches, i) ==
    IF i > Len(branches) THEN <<>>
    ELSE BranchWalk(branches[i]) \o BranchesWalk(branches, i + 1)

\* the steps of the double forEach over a blueprint that is not null
NodeWalk(bp) ==
    LET branches == Get(bp, W("branches"))
    IN IF GetThrows(branches) THEN <<>>
       ELSE IF ~IsArray(branches) THEN <<WalkThrows>>
       ELSE BranchesWalk(branches.v, 1)

\* the state of checkDoctrine: this.result, the local flag of the loop under
\* way, and whether a TypeError has ended it
Doing(r) == [thrown |-> FALSE, all |-> TRUE, r |-> r]
Raise(st) == [st EXCEPT !.thrown = TRUE]
Step(st, ok, r) == [thrown |-> FALSE, all |-> st.all /\ ok, r |-> r]

\* whether a step of the walk raises: the walk itself, or a property read
\* on a node that is null or undefined
StepThrows(step) == step.throws \/ GetThrows(step.node)

\* as a checker that gives up at the first failed predicate would: the
\* missing heir ends checkDoctrine
checkHeirCanopyOrLeave(bp, r) ==
    IF GetThrows(bp) THEN Raise(Doing(r))
    ELSE IF /\ Truthy(Get(bp, W("heir")))
            /\ Truthy(Get(Get(bp, W("heir")), W("name")))
            /\ Truthy(Get(Get(bp, W("heir")), W("acronym")))
    THEN Doing(SetCheck(r, "heirCanopy", TRUE))
    ELSE Raise(Doing(PushError(r, Err("heir_required", <<>>))))

\* // Check HEIR Canopy
checkHeirCanopy(bp, r) ==
    IF GetThrows(bp) THEN Raise(Doing(r))
    ELSE LET heir == Get(bp, W("heir"))
         IN IF /\ Truthy(heir)
               /\ Truthy(Get(heir, W("name")))
               /\ Truthy(Get(heir, W("acronym")))
            THEN Doing(SetCheck(r, "heirCanopy", TRUE))
            ELSE Doing(PushError(r, Err("heir_required", <<>>)))

\* !node.IMO || !node.IMO.input || !node.IMO.middle || !node.IMO.output
IncompleteIMO(node) ==
    LET imo == Get(node, W("IMO"))
    IN \/ ~Truthy(imo)
       \/ ~Truthy(Get(imo, W("input")))
       \/ ~Truthy(Get(imo, W("middle")))
       \/ ~Truthy(Get(imo, W("output")))

RECURSIVE verticalIMOLoopBreak(_, _, _)
\* as a loop that leaves at the first failing node would: one node reported
\* however many fail
verticalIMOLoopBreak(walk, i, st) ==
    IF i > Len(walk) THEN st
    ELSE IF StepThrows(walk[i]) THEN Raise(st)
    ELSE IF \/ Get(walk[i].node, W("orientation")) # S("vertical")
            \/ IncompleteIMO(walk[i].node)
    THEN Step(st, FALSE,
              PushErrorIf(IncompleteIMO(walk[i].node),
                          PushErrorIf(Get(walk[i].node, W("orientation"))
                                          # S("vertical"),
                                      st.r,
                                      NodeErr("not_vertical", walk[i].node)),
                          NodeErr("incomplete_imo", walk[i].node)))
    ELSE verticalIMOLoopBreak(walk, i + 1, st)

RECURSIVE verticalIMOLoop(_, _, _)
\* // Check Vertical IMO: the loop, from step i of the walk on
verticalIMOLoop(walk, i, st) ==
    IF i > Len(walk) THEN st
    ELSE IF StepThrows(walk[i]) THEN Raise(st)
    ELSE LET node == walk[i].node
             notVertical == Get(node, W("orientation")) # S("vertical")
             r1 == PushErrorIf(notVertical, st.r, NodeErr("not_vertical", node))
             r2 == PushErrorIf(IncompleteIMO(node), r1,
                               NodeErr("incomplete_imo", node))
         IN verticalIMOLoop(walk, i + 1,
                            Step(st, ~notVertical /\ ~IncompleteIMO(node), r2))

\* !node.ORBT || !node.ORBT.operate || !node.ORBT.repair || !node.ORBT.build
\* || !node.ORBT.train
IncompleteORBT(node) ==
    LET orbt == Get(node, W("ORBT"))
    IN \/ ~Truthy(orbt)
       \/ \E k \in {W("operate"), W("repair"), W("build"), W("train")} :
             ~Truthy(Get(orbt, k))

RECURSIVE orbtLoop(_, _, _)
\* // Check ORBT Discipline: the loop
orbtLoop(walk, i, st) ==
    IF i > Len(walk) THEN st
    ELSE IF StepThrows(walk[i]) THEN Raise(st)
    ELSE LET node == walk[i].node
         IN orbtLoop(walk, i + 1,
                     Step(st, ~IncompleteORBT(node),
                          PushErrorIf(IncompleteORBT(node), st.r,
                                      NodeErr("missing_orbt", node))))

\* // Check Schema Grounding
checkSchemaGrounding(bp, st) ==
    IF st.thrown THEN st
    ELSE IF \A k \in {W("neon"), W("firebase"), W("bigquery")} :
               Truthy(OptGet(Get(bp, W("schemas")), k))
    THEN Doing(SetCheck(st.r, "schemaGrounding", TRUE))
    ELSE Doing(PushError(st.r, Err("schema_grounding", <<>>)))

\* !x as a JSON value
Not(x) == Bool(~Truthy(x))

\* node.IMO?.middle?.key
Middle(node, key) == OptGet(OptGet(Get(node, W("IMO")), W("middle")), key)

\* as the test without the stray negation would: a gate that is undefined
MissingGateUndefined(node) ==
    OptGet(Middle(node, W("promotion")), W("gate")) = Undefined

\* !node.IMO?.middle?.promotion?.gate === undefined
MissingGate(node) ==
    Not(OptGet(Middle(node, W("promotion")), W("gate"))) = Undefined

RECURSIVE promotionLoop(_, _, _)
\* // Check Promotion Gates: the loop
promotionLoop(walk, i, st) ==
    IF i > Len(walk) THEN st
    ELSE IF StepThrows(walk[i]) THEN Raise(st)
    ELSE LET node == walk[i].node
         IN promotionLoop(walk, i + 1,
               [thrown |-> FALSE, all |-> st.all /\ ~MissingGate(node),
                r |-> IF MissingGate(node)
                      THEN PushWarning(st.r, NodeErr("missing_gate", node))
                      ELSE st.r])

\* !node.IMO?.middle?.operations || node.IMO.middle.operations.length === 0
NoOperations(node) ==
    \/ ~Truthy(Middle(node, W("operations")))
    \/ Get(Middle(node, W("operations")), W("length")) = Num(0)

\* !node.IMO?.middle?.orchestration?.orchestrator
NoOrchestrator(node) ==
    ~Truthy(OptGet(Middle(node, W("orchestration")), W("orchestrator")))

RECURSIVE operationsLoop(_, _, _)
\* // Check Middle Operations: the loop
operationsLoop(walk, i, st) ==
    IF i > Len(walk) THEN st
    ELSE IF StepThrows(walk[i]) THEN Raise(st)
    ELSE LET node == walk[i].node
             r1 == PushErrorIf(NoOperations(node), st.r,
                               NodeErr("missing_operations", node))
             r2 == PushErrorIf(NoOrchestrator(node), r1,
                               NodeErr("missing_orchestrator", node))
         IN operationsLoop(walk, i + 1,
                           Step(st, ~NoOperations(node) /\ ~NoOrchestrator(node),
                                r2))

\* a loop of checkDoctrine over the nodes and the assignment that follows it
AfterLoop(st, check) ==
    IF st.thrown THEN st ELSE Doing(SetCheck(st.r, check, st.all))

\* // Check Vertical IMO, // Check ORBT Discipline, // Check Promotion Gates
\* and // Check Middle Operations, each skipped once an error has been raised
checkVerticalIMO(bp, st) ==
    IF st.thrown THEN st
    ELSE AfterLoop(verticalIMOLoop(NodeWalk(bp), 1, st), "verticalIMO")
checkORBTDiscipline(bp, st) ==
    IF st.thrown THEN st
    ELSE AfterLoop(orbtLoop(NodeWalk(bp), 1, st), "orbtDiscipline")
checkPromotionGates(bp, st) ==
    IF st.thrown THEN st
    ELSE AfterLoop(promotionLoop(NodeWalk(bp), 1, st), "promotionGates")
checkMiddleOperations(bp, st) ==
    IF st.thrown THEN st
    ELSE AfterLoop(operationsLoop(NodeWalk(bp), 1, st), "middleOperations")

\* one test of // Check constraints
Constraint(r, bp, key, check, e) ==
    PushErrorIf(Truthy(Get(Get(bp, W("constraints")), W(key)))
                /\ ~r.doctrineChecks[check], r, Err(e, <<>>))

\* // Check constraints
checkConstraints(bp, st) ==
    IF st.thrown \/ ~Truthy(Get(bp, W("constraints"))) THEN st
    ELSE Doing(
           Constraint(
             Constraint(
               Constraint(
                 Constraint(st.r, bp, "require_heir_canopy", "heirCanopy",
                            "constraint_heir"),
                 bp, "require_vertical_imo", "verticalIMO", "constraint_imo"),
               bp, "require_orbt_per_node", "orbtDiscipline", "constraint_orbt"),
             bp, "require_schemas_base", "schemaGrounding",
             "constraint_schemas"))

\* private checkDoctrine(blueprint), this.result being r: the result after
\* it, and whether it raised
checkDoctrine(bp, r) ==
    checkConstraints(bp,
      checkMiddleOperations(bp,
        checkPromotionGates(bp,
          checkSchemaGrounding(bp,
            checkORBTDiscipline(bp,
              checkVerticalIMO(bp, checkHeirCanopy(bp, r)))))))

\* what the script finds under filePath: no file, a file that cannot be
\* read, text that does not parse, or text that parses to a document
FileMissing == [kind |-> "missing", doc |-> Null]
FileUnreadable == [kind |-> "unreadable", doc |-> Null]
FileUnparsable == [kind |-> "unparsable", doc |-> Null]
FileOf(doc) == [kind |-> "document", doc |-> doc]

\* the catch of CTBSchema.parse(parsed): e.errors.forEach(...); valid = false
ctbSchemaErrors(r, parsed) ==
    LET issues == ZodIssues(CTBSchema, parsed, <<>>)
    IN IF issues = <<>> THEN r
       ELSE [r EXCEPT !.errors = @ \o SchemaErrs(issues), !.valid = FALSE]

\* // Set overall validity, or the catch of validate when checkDoctrine raised
setValidity(st) ==
    IF st.thrown THEN [PushError(st.r, FailedErr) EXCEPT !.valid = FALSE]
    ELSE [st.r EXCEPT !.valid = (Len(st.r.errors) = 0)]

\* as a validator that goes on after a parse error would, the document
\* being null
validateAfterParseError(r, file) ==
    CASE file.kind = "missing" ->
           [PushError(r, Err("not_found", <<>>)) EXCEPT !.valid = FALSE]
      [] file.kind = "unreadable" ->
           [PushError(r, FailedErr) EXCEPT !.valid = FALSE]
      [] OTHER ->
           setValidity(
             checkDoctrine(file.doc,
                           ctbSchemaErrors(
                             PushErrorIf(file.kind = "unparsable", r,
                                         Err("invalid_yaml", <<>>)),
                             file.doc)))

\* async validate(filePath), this.result being r: this.result after the call,
\* which is also the object the call returns
validate(r, file) ==
    CASE file.kind = "missing" ->
           [PushError(r, Err("not_found", <<>>)) EXCEPT !.valid = FALSE]
      [] file.kind = "unreadable" ->
           [PushError(r, FailedErr) EXCEPT !.valid = FALSE]
      [] file.kind = "unparsable" ->
           [PushError(r, Err("invalid_yaml", <<>>)) EXCEPT !.valid = FALSE]
      [] OTHER ->
           setValidity(checkDoctrine(file.doc, ctbSchemaErrors(r, file.doc)))

----------------------------------------------------------------------------
(* CTB documents *)

Words == Arr(<<S("x")>>)
Link == Str(<<"https", ":", "//", "x">>)

GoodMiddle ==
    Obj(W("orchestration") :>
            Obj(W("orchestrator") :> S("x") @@ W("tools") :> Words
                @@ W("playbook") :> Words)
        @@ W("operations") :>
            Arr(<<Obj(W("title") :> S("x") @@ W("tool") :> S("x")
                      @@ W("computation") :> S("x"))>>)
        @@ W("contracts") :>
            Obj(W("preconditions") :> Words @@ W("postconditions") :> Words)
        @@ W("promotion") :>
            Obj(W("gate") :> Bool(TRUE) @@ W("rules") :> Words
                @@ W("destinations") :> Words
                @@ W("human_firebreak") :> Bool(FALSE))
        @@ W("failure") :>
            Obj(W("failure_modes") :> Words @@ W("retries") :> Num(1)
                @@ W("fallback_plan") :> Words @@ W("incident_log") :> S("x"))
        @@ W("observability") :>
            Obj(W("metrics") :> Words @@ W("logs") :> Words
                @@ W("trace_fields") :> Words))

Quad(a, b, c, d) ==
    Obj(W(a) :> Words @@ W(b) :> Words @@ W(c) :> Words @@ W(d) :> Words)

\* a node that both schemas accept, labelled n1, n2, ...
GoodCTBNode(i) ==
    Obj(W("id") :> S("x") @@ W("label") :> Str(<<"n", ToString(i)>>)
        @@ W("altitude") :> S("x") @@ W("orientation") :> S("vertical")
        @@ W("IMO") :> Obj(W("input") :> Words @@ W("middle") :> GoodMiddle
                          @@ W("output") :> Words)
        @@ W("ORBT") :> Quad("operate", "repair", "build", "train")
        @@ W("CARB") :> Quad("compliance", "automation", "repair", "blueprint")
        @@ W("links") :> Obj(W("repo") :> Link @@ W("render_endpoint") :> Link)
        @@ W("badges") :> Words)

GoodCTBBranch(n) ==
    Obj(W("id") :> S("x") @@ W("name") :> S("x") @@ W("altitude") :> S("x")
        @@ W("render_hints") :> Obj(W("icon") :> S("x"))
        @@ W("nodes") :> Arr([i \in 1..n |-> GoodCTBNode(i)]))

Store(name, samples, what, keys) ==
    Obj(W("name") :> S(name)
        @@ W(samples) :> Arr(<<Obj(W(what) :> S("x") @@ W(keys) :> Words)>>))

GoodSchemas ==
    Obj(W("neon") :>
            Store("STAMPED (Vault)", "sample_tables", "table", "key_columns")
        @@ W("firebase") :>
            Store("SPVPET (Working Memory)", "sample_collections", "collection",
                  "key_fields")
        @@ W("bigquery") :>
            Store("STACKED (Analytics)", "sample_datasets", "dataset",
                  "key_fields"))

GoodConstraints ==
    Obj([k \in {W("require_heir_canopy"), W("require_vertical_imo"),
                W("require_orbt_per_node"), W("require_middle_operations"),
                W("require_schemas_base"), W("allow_carb_optional")} |->
           Bool(TRUE)])

\* a document with b branches of n nodes that CTBSchema and the doctrine
\* schema of the dashboard accept and that meets the doctrine
GoodCTB(b, n) ==
    Obj(W("meta") :>
            Obj(W("spec_version") :> S("x") @@ W("doctrine_lock") :> Bool(TRUE)
                @@ W("notes") :> Words)
        @@ W("heir") :>
            Obj(W("name") :> S("x") @@ W("acronym") :> S("x")
                @@ W("description") :> S("x")
                @@ W("render_hints") :>
                    Obj(W("style") :> S("x") @@ W("badge") :> S("x")
                        @@ W("legend") :> Bool(TRUE)))
        @@ W("star") :>
            Obj(W("id") :> S("x") @@ W("name") :> S("x")
                @@ W("altitude") :> S("x") @@ W("tagline") :> S("x")
                @@ W("render_hints") :>
                    Obj(W("icon") :> S("x") @@ W("emphasis") :> Bool(TRUE)))
        @@ W("branches") :> Arr([i \in 1..b |-> GoodCTBBranch(n)])
        @@ W("schemas") :> GoodSchemas
        @@ W("legend") :>
            Obj(W("altitudes") :>
                    Arr(<<Obj(W("label") :> S("x")
                              @@ W("description") :> S("x"))>>)
                @@ W("acronyms") :> Obj(W("CTB") :> S("x")))
        @@ W("constraints") :> GoodConstraints
        @@ W("render_hints") :>
            Obj(W("layout") :> S("x") @@ W("imo_stack_style") :> S("x")
                @@ W("branch_alignment") :> S("x")
                @@ W("schema_band_position") :> S("x")
                @@ W("colors") :> Obj(W("star") :> S("x"))
                @@ W("emphasis") :>
                    Obj(W("middle_column_scale") :> Num(2)
                        @@ W("middle_highlight") :> Bool(TRUE)))
        @@ W("telemetry") :>
            Obj(W("trace_id") :> S("x") @@ W("version_hash") :> S("x")
                @@ W("timestamp_iso") :> S("x")))

----------------------------------------------------------------------------
(* CTBDoctrineBuilder.validateDoctrine of the dashboard *)

\* one of the three stores of SchemaGroundingSchema
GroundingStore(name, samples, what, keys) ==
    ZObject(<<
        <<W("name"), ZLiteral(W(name))>>,
        <<W(samples),
          ZArray(ZObject(<< <<W(what), ZString>>, <<W(keys), ZStrings>> >>))>> >>)

\* const SchemaGroundingSchema
SchemaGroundingSchema ==
    ZObject(<<
        <<W("neon"),
          GroundingStore("STAMPED (Vault)", "sample_tables", "table",
                         "key_columns")>>,
        <<W("firebase"),
          GroundingStore("SPVPET (Working Memory)", "sample_collections",
                         "collection", "key_fields")>>,
        <<W("bigquery"),
          GroundingStore("STACKED (Analytics)", "sample_datasets", "dataset",
                         "key_fields")>> >>)

\* const CTBNodeSchema of the doctrine section: CARB, links and badges are
\* required
DoctrineNodeSchema ==
    ZObject(<<
        <<W("id"), ZString>>, <<W("label"), ZString>>, <<W("altitude"), ZString>>,
        <<W("orientation"), ZLiteral(W("vertical"))>>,
        <<W("IMO"), IMOSchema>>, <<W("ORBT"), ORBTSchema>>,
        <<W("CARB"), CARBSchema>>, <<W("links"), NodeLinksSchema>>,
        <<W("badges"), ZStrings>> >>)

\* const CTBBranchSchema of the doctrine section
DoctrineBranchSchema ==
    ZObject(<<
        <<W("id"), ZString>>, <<W("name"), ZString>>, <<W("altitude"), ZString>>,
        <<W("render_hints"), IconHints>>,
        <<W("nodes"), ZArray(DoctrineNodeSchema)>> >>)

\* const CTBDoctrineBlueprintSchema
CTBDoctrineBlueprintSchema ==
    ZObject(<<
        <<W("meta"), CTBMetaSchema>>,
        <<W("heir"),
          ZObject(<< <<W("name"), ZString>>, <<W("acronym"), ZString>>,
                     <<W("description"), ZString>>,
                     <<W("render_hints"),
                       ZObject(<< <<W("style"), ZString>>,
                                  <<W("badge"), ZString>>,
                                  <<W("legend"), ZBoolean>> >>)>> >>)>>,
        <<W("star"), StarSchema>>,
        <<W("branches"), ZArray(DoctrineBranchSchema)>>,
        <<W("schemas"), SchemaGroundingSchema>>,
        <<W("legend"), LegendSchema>>,
        <<W("constraints"), ConstraintsSchema>>,
        <<W("render_hints"), RenderHintsSchema>>,
        <<W("telemetry"), TelemetrySchema>> >>)

\* this.doctrineViolations.push(v) when cond holds
PushIf(cond, violations, v) == IF cond THEN Append(violations, v) ELSE violations

\* the state of validateDoctrine: this.doctrineViolations, and whether an
\* error has been raised inside the try
Violations(v) == [thrown |-> FALSE, violations |-> v]

RECURSIVE doctrineIMOLoop(_, _, _)
\* if (blueprint.constraints.require_vertical_imo): the loop over the nodes
doctrineIMOLoop(walk, i, st) ==
    IF i > Len(walk) THEN st
    ELSE IF StepThrows(walk[i]) THEN Raise(st)
    ELSE LET node == walk[i].node
             v1 == PushIf(~Truthy(Get(node, W("IMO")))
                          \/ Get(node, W("orientation")) # S("vertical"),
                          st.violations, NodeErr("not_vertical_imo", node))
             v2 == PushIf(~Truthy(Middle(node, W("orchestration"))), v1,
                          NodeErr("missing_orchestration", node))
             v3 == PushIf(~Truthy(OptGet(Middle(node, W("operations")),
                                         W("length"))), v2,
                          NodeErr("missing_operations", node))
             v4 == PushIf(~Truthy(OptGet(Middle(node, W("promotion")),
                                         W("gate"))), v3,
                          NodeErr("missing_gate", node))
         IN doctrineIMOLoop(walk, i + 1, Violations(v4))

RECURSIVE doctrineORBTLoop(_, _, _)
\* if (blueprint.constraints.require_orbt_per_node): the loop over the nodes
doctrineORBTLoop(walk, i, st) ==
    IF i > Len(walk) THEN st
    ELSE IF StepThrows(walk[i]) THEN Raise(st)
    ELSE doctrineORBTLoop(walk, i + 1,
            Violations(PushIf(~Truthy(Get(walk[i].node, W("ORBT"))),
                              st.violations,
                              NodeErr("missing_orbt", walk[i].node))))

\* if (blueprint.constraints.require_heir_canopy && !blueprint.heir)
doctrineHeir(bp, st) ==
    Violations(
      PushIf(Truthy(Get(Get(bp, W("constraints")), W("require_heir_canopy")))
             /\ ~Truthy(Get(bp, W("heir"))),
             st.violations, Err("heir_missing", <<>>)))

\* if (blueprint.constraints.require_vertical_imo) {...}
doctrineVerticalIMO(bp, st) ==
    IF st.thrown
       \/ ~Truthy(Get(Get(bp, W("constraints")), W("require_vertical_imo")))
    THEN st
    ELSE doctrineIMOLoop(NodeWalk(bp), 1, st)

\* if (blueprint.constraints.require_orbt_per_node) {...}
doctrineORBT(bp, st) ==
    IF st.thrown
       \/ ~Truthy(Get(Get(bp, W("constraints")), W("require_orbt_per_node")))
    THEN st
    ELSE doctrineORBTLoop(NodeWalk(bp), 1, st)

\* if (blueprint.constraints.require_schemas_base) {...}
doctrineSchemas(bp, st) ==
    IF st.thrown
       \/ ~Truthy(Get(Get(bp, W("constraints")), W("require_schemas_base")))
    THEN st
    ELSE Violations(
           PushIf(\E k \in {W("neon"), W("firebase"), W("bigquery")} :
                     ~Truthy(OptGet(Get(bp, W("schemas")), k)),
                  st.violations, Err("schema_grounding", <<>>)))

\* // Doctrine constraint validation, the violations so far being v
doctrineConstraints(bp, v) ==
    IF GetThrows(bp) THEN Raise(Violations(v))
    ELSE IF ~Truthy(Get(bp, W("constraints"))) THEN Violations(v)
    ELSE doctrineSchemas(bp,
           doctrineORBT(bp,
             doctrineVerticalIMO(bp, doctrineHeir(bp, Violations(v)))))

\* the catch of validateDoctrine, when an error was raised, and its return
doctrineReturn(st) ==
    IF st.thrown
    THEN [valid |-> FALSE, violations |-> Append(st.violations, FailedErr)]
    ELSE [valid |-> Len(st.violations) = 0, violations |-> st.violations]

\* validateDoctrine(blueprint): {valid, violations}
validateDoctrine(bp) ==
    doctrineReturn(
      doctrineConstraints(bp,
        SchemaErrs(ZodIssues(CTBDoctrineBlueprintSchema, bp, <<>>))))

----------------------------------------------------------------------------
(* BlueprintValidator of scripts/validate.ts *)

ZStringMin1 == ZMin(ZString, 1)
ZStringsMin1 == ZMin(ZStrings, 1)
\* z.string().url().optional().or(z.literal(""))
ZUrlOrEmpty == ZOr(ZOptional(ZUrl), ZLiteral(<<>>))

\* an object schema whose fields all have the schema s
ZFields(keys, s) == ZObject([i \in 1..Len(keys) |-> <<W(keys[i]), s>>])

\* altitudes: z.object({...})
AltitudesSchema ==
    ZObject(<<
        <<W("30000"),
          ZObject(<< <<W("project_name"), ZStringMin1>>,
                     <<W("objective"), ZStringMin1>>,
                     <<W("success_criteria"), ZStringsMin1>>,
                     <<W("stakeholders"), ZStringsMin1>> >>)>>,
        <<W("20000"),
          ZFields(<<"components", "roles", "stages", "inputs", "outputs">>,
                  ZStringsMin1)>>,
        <<W("10000"),
          ZObject(<< <<W("steps"), ZStringsMin1>>,
                     <<W("apis_services"), ZStrings>>,
                     <<W("decision_points"), ZStrings>>,
                     <<W("llms"), ZStrings>>, <<W("compliance"), ZStrings>> >>)>>,
        <<W("5000"),
          ZObject(<< <<W("documentation_plan"), ZStrings>>,
                     <<W("agent_roles"),
                       ZFields(<<"claude", "project_gpt", "whimsical_gpt",
                                 "sidecar", "heir">>, ZString)>>,
                     <<W("handoffs"), ZStrings>>,
                     <<W("firebreak_queue"),
                       ZFields(<<"location", "policy">>, ZString)>> >>)>> >>)

\* const BlueprintSchema
BlueprintSchema ==
    ZObject(<<
        <<W("project_slug"), ZStringMin1>>,
        <<W("created_at"), ZDatetime>>,
        <<W("created_by"), ZStringMin1>>,
        <<W("status_flags"),
          ZFields(<<"is_filled", "is_validated", "is_whimsical_ready">>,
                  ZBoolean)>>,
        <<W("meta"),
          ZObject(<< <<W("unique_id"), ZString>>, <<W("process_id"), ZString>>,
                     <<W("blueprint_version_hash"), ZString>>,
                     <<W("doctrine"), ZStrings>> >>)>>,
        <<W("altitudes"), AltitudesSchema>>,
        <<W("trunk_root"),
          ZObject(<< <<W("doctrine_foundation"), ZStrings>>,
                     <<W("schema_enforcement"), ZStrings>>,
                     <<W("telemetry"),
                       ZObject(<< <<W("emit_at_every_stage"), ZBoolean>>,
                                  <<W("sink"), ZStrings>> >>)>> >>)>>,
        <<W("whimsical_outputs"),
          ZFields(<<"generate_mind_map", "generate_flowchart",
                    "generate_agent_map", "generate_sequence_diagram">>,
                  ZBoolean)>>,
        <<W("handoff_to_whimsical"), ZBoolean>>,
        <<W("notion_links"),
          ZFields(<<"project_page", "backlog_board", "diagrams_doc">>,
                  ZUrlOrEmpty)>>,
        <<W("visual_embedding"),
          ZObject(<< <<W("iframe_target"), ZUrlOrEmpty>>,
                     <<W("preferred_height_px"), ZNumber>>,
                     <<W("whimsical_diagram_ids"), ZStrings>> >>)>>,
        <<W("diagram_trace_tags"), ZStrings>> >>)

\* the symbols of the model's strings that /^[a-z0-9-]+$/ matches
SlugSymbols ==
    {"a", "b", "c", "d", "e", "g", "i", "j", "k", "l", "m", "n", "o", "p", "r",
     "s", "t", "u", "v", "x", "y", "-", "undefined", "null", "true", "false"}
    \cup {ToString(n) : n \in 0..9}

\* slugPattern.test(value): the pattern is matched against String(value)
SlugPatternTest(value) ==
    /\ TemplateText(value) # <<>>
    /\ \A i \in 1..Len(TemplateText(value)) : TemplateText(value)[i] \in SlugSymbols

\* the placeholders, character by character
YourProject == YourDash \o <<"p", "r", "o", "j", "e", "c", "t">>
Placeholders ==
    << YourProject \o <<"-", "n", "a", "m", "e">>,
       YourProject,
       YourDash \o <<"b", "a", "c", "k", "l", "o", "g">>,
       YourDash \o <<"d", "i", "a", "g", "r", "a", "m", "s">>,
       <<"y", "o", "u", "r", "a", "p", "p", ".", "d", "e", "v">> >>

RECURSIVE Texts(_)
\* the keys and the string values JSON.stringify writes for a value
Texts(x) ==
    CASE x.t = "str" -> {x.v}
      [] x.t = "arr" -> UNION {Texts(x.v[i]) : i \in 1..Len(x.v)}
      [] x.t = "obj" -> DOMAIN x.v \cup UNION {Texts(x.v[k]) : k \in DOMAIN x.v}
      [] OTHER -> {}

\* JSON.stringify(blueprint).includes(placeholder): a placeholder holds no
\* character of the JSON syntax, so it lies inside one key or string value
StringifyIncludes(x, placeholder) ==
    \E s \in Texts(x) : Includes(s, placeholder)

RECURSIVE placeholderWarnings(_, _)
\* placeholders.forEach(...), from placeholder i on
placeholderWarnings(x, i) ==
    IF i > Len(Placeholders) THEN <<>>
    ELSE (IF StringifyIncludes(x, Placeholders[i])
          THEN <<Err("placeholder", Placeholders[i])>> ELSE <<>>)
         \o placeholderWarnings(x, i + 1)

RequiredDoctrines == <<W("BARTON"), W("ORBT"), W("HEIR")>>

\* whether blueprint.meta.doctrine.includes(...) raises a TypeError: meta or
\* doctrine is missing, or doctrine is neither an array nor a string
DoctrineIncludesThrows(bp) ==
    \/ GetThrows(Get(bp, W("meta")))
    \/ Get(Get(bp, W("meta")), W("doctrine")).t \notin {"arr", "str"}

\* doctrine.includes(d) of an array or of a string
DoctrineIncludes(doctrine, d) ==
    IF IsArray(doctrine) THEN \E i \in 1..Len(doctrine.v) : doctrine.v[i] = Str(d)
    ELSE Includes(doctrine.v, d)

\* requiredDoctrines.filter(doctrine => !blueprint.meta.doctrine.includes(doctrine))
missingDoctrines(bp) ==
    SelectSeq(RequiredDoctrines,
              LAMBDA d : ~DoctrineIncludes(Get(Get(bp, W("meta")), W("doctrine")), d))

RECURSIVE JoinComma(_)
\* missingDoctrines.join(', ')
JoinComma(words) ==
    IF words = <<>> THEN <<>>
    ELSE IF Len(words) = 1 THEN words[1]
    ELSE words[1] \o <<", ">> \o JoinComma(Tail(words))

AltitudeNames == <<W("30000"), W("20000"), W("10000"), W("5000")>>

\* the property keys of a value, as Object.entries lists them
EntryKeys(x) ==
    CASE x.t = "obj" -> KeySeq(DOMAIN x.v)
      [] x.t \in {"arr", "str"} -> [i \in 1..Len(x.v) |-> <<ToString(i - 1)>>]
      [] OTHER -> <<>>

RECURSIVE emptyWarnings(_, _, _)
\* Object.entries(altitudeData).forEach(...), from entry i on
emptyWarnings(altitude, altitudeData, i) ==
    IF i > Len(EntryKeys(altitudeData)) THEN <<>>
    ELSE (IF Get(altitudeData, EntryKeys(altitudeData)[i])
               \in {Arr(<<>>), Str(<<>>)}
          THEN <<Err("empty", altitude \o <<".">> \o EntryKeys(altitudeData)[i])>>
          ELSE <<>>)
         \o emptyWarnings(altitude, altitudeData, i + 1)

RECURSIVE altitudeWarnings(_, _)
\* altitudes.forEach(...), from altitude i on
altitudeWarnings(bp, i) ==
    IF i > Len(AltitudeNames) THEN <<>>
    ELSE LET altitudeData == Get(Get(bp, W("altitudes")), AltitudeNames[i])
         IN (IF ~Truthy(altitudeData) THEN <<>>
             ELSE emptyWarnings(AltitudeNames[i], altitudeData, 1))
            \o altitudeWarnings(bp, i + 1)

\* the state of validateBlueprint: its result, and whether an error has
\* been raised inside the try
Validating(r) == [thrown |-> FALSE, r |-> r]

\* // Check project slug format and // Check for placeholder values
checkSlugAndPlaceholders(bp, r) ==
    IF GetThrows(bp) THEN Raise(Validating(r))
    ELSE Validating(
           [r EXCEPT !.warnings =
               (IF SlugPatternTest(Get(bp, W("project_slug"))) THEN @
                ELSE Append(@, Err("slug", <<>>)))
               \o placeholderWarnings(bp, 1)])

\* // Check doctrine compliance
checkDoctrineCompliance(bp, st) ==
    IF st.thrown THEN st
    ELSE IF DoctrineIncludesThrows(bp) THEN Raise(st)
    ELSE Validating(PushErrorIf(missingDoctrines(bp) # <<>>, st.r,
                                Err("missing_doctrines",
                                    JoinComma(missingDoctrines(bp)))))

\* // Check altitude completeness
checkAltitudeCompleteness(bp, st) ==
    IF st.thrown THEN st
    ELSE IF GetThrows(Get(bp, W("altitudes"))) THEN Raise(st)
    ELSE Validating([st.r EXCEPT !.warnings = @ \o altitudeWarnings(bp, 1)])

\* private validateCustomRules(blueprint, result)
validateCustomRules(bp, r) ==
    checkAltitudeCompleteness(bp,
      checkDoctrineCompliance(bp, checkSlugAndPlaceholders(bp, r)))

\* one test of generateSuggestions
SuggestIf(cond, suggestion) == IF cond THEN <<suggestion>> ELSE <<>>

\* whether generateSuggestions raises a TypeError: one of the three objects
\* it reads a property of is missing
SuggestionsThrow(bp) ==
    \E k \in {W("notion_links"), W("visual_embedding"), W("whimsical_outputs")} :
        GetThrows(Get(bp, k))

\* private generateSuggestions(blueprint, completeness)
generateSuggestions(bp, completeness) ==
    SuggestIf(completeness < 30, "30000ft")
    \o SuggestIf(completeness < 50, "20000ft")
    \o SuggestIf(completeness < 70, "10000ft")
    \o SuggestIf(completeness < 90, "5000ft")
    \o SuggestIf(~Truthy(Get(Get(bp, W("notion_links")), W("project_page"))),
                 "notion")
    \o SuggestIf(~Truthy(Get(Get(bp, W("visual_embedding")), W("iframe_target"))),
                 "iframe")
    \o SuggestIf(Truthy(Get(Get(bp, W("whimsical_outputs")),
                            W("generate_mind_map")))
                 /\ completeness >= 80, "whimsical")

RECURSIVE Stringify(_, _)
RECURSIVE StringifyItems(_, _, _)
RECURSIVE StringifyFields(_, _, _, _)

\* the elements of an array, from element i on, with the commas
StringifyItems(items, i, allow) ==
    IF i > Len(items) THEN <<>>
    ELSE (IF i > 1 THEN <<",">> ELSE <<>>) \o Stringify(items[i], allow)
         \o StringifyItems(items, i + 1, allow)

\* the properties of an object among the keys listed, with the commas
StringifyFields(x, keys, first, allow) ==
    IF keys = <<>> THEN <<>>
    ELSE (IF first THEN <<>> ELSE <<",">>)
         \o <<"\"">> \o Head(keys) \o <<"\"", ":">>
         \o Stringify(x.v[Head(keys)], allow)
         \o StringifyFields(x, Tail(keys), FALSE, allow)

\* JSON.stringify(x, allow) with an array of keys as the replacer: at every
\* depth an object keeps the properties whose keys are in the array only, in
\* the order of the array
Stringify(x, allow) ==
    CASE x.t = "str" -> <<"\"">> \o x.v \o <<"\"">>
      [] x.t = "num" -> <<ToString(x.v)>>
      [] x.t = "bool" -> IF x.v THEN <<"true">> ELSE <<"false">>
      [] x.t = "arr" -> <<"[">> \o StringifyItems(x.v, 1, allow) \o <<"]">>
      [] x.t = "obj" ->
           <<"{">> \o StringifyFields(x, SelectSeq(allow,
                                                  LAMBDA k : k \in DOMAIN x.v),
                                     TRUE, allow) \o <<"}">>
      [] OTHER -> <<"null">>

\* as a hash of the whole blueprint would, meta and status_flags included
generateBlueprintHashOfAll(bp) ==
    Str(<<"sha256:">> \o Stringify(bp, KeySeq(Texts(bp))))

\* private generateBlueprintHash(blueprint): the digest is taken to differ
\* whenever contentString does; Object.keys(hashableContent).sort() is a fixed
\* order of the keys
generateBlueprintHash(bp) ==
    LET keys == DOMAIN bp.v \ {W("meta"), W("status_flags")}
        hashableContent == Obj([k \in keys |-> bp.v[k]])
        contentString == Stringify(hashableContent, KeySeq(keys))
    IN Str(<<"sha256:">> \o contentString)

\* as a validator that also dates the blueprint it writes back would
StampedAndDated(bp, completeness) ==
    Obj((W("meta") :>
            Obj((W("blueprint_version_hash") :> generateBlueprintHash(bp))
                @@ (W("updated_at") :> S("now"))
                @@ bp.v[W("meta")].v))
        @@ (W("status_flags") :>
               Obj((W("is_validated") :> Bool(TRUE))
                   @@ (W("is_whimsical_ready") :> Bool(completeness >= 80))
                   @@ bp.v[W("status_flags")].v))
        @@ bp.v)

\* the blueprint validateBlueprint writes back: the hash and the two status
\* flags set
Stamped(bp, completeness) ==
    LET meta == Obj((W("blueprint_version_hash") :> generateBlueprintHash(bp))
                    @@ bp.v[W("meta")].v)
        flags == Obj((W("is_validated") :> Bool(TRUE))
                     @@ (W("is_whimsical_ready") :> Bool(completeness >= 80))
                     @@ bp.v[W("status_flags")].v)
    IN Obj((W("meta") :> meta) @@ (W("status_flags") :> flags) @@ bp.v)

\* result.completeness = this.calculateCompleteness(blueprint)
setCompleteness(st, score) ==
    IF st.thrown THEN st
    ELSE IF score.thrown THEN Raise(st)
    ELSE Validating([st.r EXCEPT !.completeness = score.percent])

\* result.suggestions = this.generateSuggestions(blueprint, result.completeness)
setSuggestions(bp, st) ==
    IF st.thrown THEN st
    ELSE IF SuggestionsThrow(bp) THEN Raise(st)
    ELSE Validating([st.r EXCEPT !.suggestions =
                        generateSuggestions(bp, st.r.completeness)])

\* result.errors.push(`Validation failed: ${error}`) of the catch
Caught(r) == PushError(r, FailedErr)

\* as a validator that stamps and writes whatever the errors would
writeBackAlways(st, file, canWrite) ==
    IF st.thrown THEN [result |-> Caught(st.r), file |-> file]
    ELSE IF \/ Get(file.doc, W("meta")).t # "obj"
            \/ Get(file.doc, W("status_flags")).t # "obj"
    THEN [result |-> Caught(st.r), file |-> file]
    ELSE IF canWrite
    THEN [result |-> [st.r EXCEPT !.isValid = (Len(st.r.errors) = 0)],
          file |-> FileOf(Stamped(file.doc, st.r.completeness))]
    ELSE [result |-> Caught([st.r EXCEPT !.isValid = TRUE]), file |-> file]

\* // Update blueprint hash if validation passes, on a file whose
\* writeFileSync succeeds iff canWrite, and the catch of validateBlueprint
writeBack(st, file, canWrite) ==
    IF st.thrown THEN [result |-> Caught(st.r), file |-> file]
    ELSE IF Len(st.r.errors) # 0 THEN [result |-> st.r, file |-> file]
    ELSE IF canWrite
    THEN [result |-> [st.r EXCEPT !.isValid = TRUE],
          file |-> FileOf(Stamped(file.doc, st.r.completeness))]
    ELSE [result |-> Caught([st.r EXCEPT !.isValid = TRUE]), file |-> file]

\* async validateBlueprint(filePath) on a file whose writeFileSync succeeds
\* iff canWrite: the result returned and the file left behind
validateBlueprint(file, canWrite) ==
    CASE file.kind = "missing" ->
           [result |-> PushError(NewBlueprintResult, Err("not_found", <<>>)),
            file |-> file]
      [] file.kind = "unreadable" ->
           [result |-> Caught(NewBlueprintResult), file |-> file]
      [] file.kind = "unparsable" ->
           [result |-> PushError(NewBlueprintResult, Err("invalid_json", <<>>)),
            file |-> file]
      [] OTHER ->
           writeBack(
             setSuggestions(file.doc,
               setCompleteness(
                 validateCustomRules(file.doc,
                   [NewBlueprintResult EXCEPT !.errors =
                       SchemaErrs(ZodIssues(BlueprintSchema, file.doc, <<>>))]),
                 calculateCompleteness(file.doc))),
             file, canWrite)

----------------------------------------------------------------------------
(* blueprint files of validateBlueprint *)

\* an object with the same value under every key
AllOf(keys, v) == Obj([k \in {W(keys[i]) : i \in 1..Len(keys)} |-> v])

\* the altitudes of a blueprint whose optional strings are text and whose
\* optional lists are list
GoodAltitudes(text, list) ==
    Obj(W("30000") :>
            Obj(W("project_name") :> S("x") @@ W("objective") :> S("x")
                @@ W("success_criteria") :> Words
                @@ W("stakeholders") :> Words)
        @@ W("20000") :>
            AllOf(<<"components", "roles", "stages", "inputs", "outputs">>,
                  Words)
        @@ W("10000") :>
            Obj(W("steps") :> Words
                @@ AllOf(<<"apis_services", "decision_points", "llms",
                           "compliance">>, list).v)
        @@ W("5000") :>
            Obj(W("documentation_plan") :> list
                @@ W("agent_roles") :>
                    AllOf(<<"claude", "project_gpt", "whimsical_gpt",
                            "sidecar", "heir">>, text)
                @@ W("handoffs") :> list
                @@ W("firebreak_queue") :>
                    AllOf(<<"location", "policy">>, text)))

\* a blueprint that BlueprintSchema and the custom rules accept
GoodBlueprint(text, list) ==
    Obj(W("project_slug") :> S("x")
        @@ W("created_at") :> S("2024-01-01T00:00:00Z")
        @@ W("created_by") :> S("x")
        @@ W("status_flags") :>
            AllOf(<<"is_filled", "is_validated", "is_whimsical_ready">>,
                  Bool(FALSE))
        @@ W("meta") :>
            Obj(W("unique_id") :> S("x") @@ W("process_id") :> S("x")
                @@ W("blueprint_version_hash") :> Str(<<>>)
                @@ W("doctrine") :> Arr(<<S("BARTON"), S("ORBT"), S("HEIR")>>))
        @@ W("altitudes") :> GoodAltitudes(text, list)
        @@ W("trunk_root") :>
            Obj(W("doctrine_foundation") :> Words
                @@ W("schema_enforcement") :> Words
                @@ W("telemetry") :>
                    Obj(W("emit_at_every_stage") :> Bool(TRUE)
                        @@ W("sink") :> Words))
        @@ W("whimsical_outputs") :>
            AllOf(<<"generate_mind_map", "generate_flowchart",
                    "generate_agent_map", "generate_sequence_diagram">>,
                  Bool(TRUE))
        @@ W("handoff_to_whimsical") :> Bool(TRUE)
        @@ W("notion_links") :>
            AllOf(<<"project_page", "backlog_board", "diagrams_doc">>,
                  IF text = Str(<<>>) THEN text ELSE Link)
        @@ W("visual_embedding") :>
            Obj(W("iframe_target") :> (IF text = Str(<<>>) THEN text ELSE Link)
                @@ W("preferred_height_px") :> Num(1)
                @@ W("whimsical_diagram_ids") :> list)
        @@ W("diagram_trace_tags") :> Words)

----------------------------------------------------------------------------
(* WhimsicalExporter.exportForWhimsical *)

\* throw new Error(`Export failed: ${error}`)
ExportFailed ==
    [called |-> TRUE, thrown |-> TRUE, ready |-> Bool(FALSE), completeness |-> 0]

\* blueprint.status_flags?.is_whimsical_ready || false
ReadyFlag(bp) ==
    LET flag == OptGet(Get(bp, W("status_flags")), W("is_whimsical_ready"))
    IN IF Truthy(flag) THEN flag ELSE Bool(FALSE)

\* { ready, completeness, prompt, payload } for a blueprint that was read,
\* score being what calculateCompleteness gave; generateWhimsicalPrompt
\* reads blueprint.meta.process_id
exportOf(bp, score) ==
    IF score.thrown \/ GetThrows(Get(bp, W("meta"))) THEN ExportFailed
    ELSE [called |-> TRUE, thrown |-> FALSE, ready |-> ReadyFlag(bp),
          completeness |-> score.percent]

\* async exportForWhimsical(filePath): the export returned, or the error
\* thrown
exportForWhimsical(file) ==
    IF file.kind # "document" \/ GetThrows(file.doc) THEN ExportFailed
    ELSE exportOf(file.doc, exporterCalculateCompleteness(file.doc))

----------------------------------------------------------------------------
(* CTBDoctrineBuilder.loadYAMLBlueprint of the dashboard *)

\* generateVersionHash(blueprint): the digest is taken to differ whenever
\* content does; Object.keys(blueprint).sort() is a fixed order of the keys
generateVersionHash(bp) ==
    Str(<<"sha256/16:">> \o Stringify(bp, KeySeq(DOMAIN bp.v)))

\* if (!blueprint.telemetry) { blueprint.telemetry = {} }
addTelemetry(bp) ==
    IF Truthy(Get(bp, W("telemetry"))) THEN bp
    ELSE Obj((W("telemetry") :> EmptyObj) @@ bp.v)

\* blueprint.telemetry.version_hash = ...; blueprint.telemetry.timestamp_iso
\* = ..., the hash being taken before either assignment
stampTelemetry(bp, now) ==
    Obj((W("telemetry") :>
            Obj((W("version_hash") :> generateVersionHash(bp))
                @@ (W("timestamp_iso") :> Str(now))
                @@ bp.v[W("telemetry")].v))
        @@ bp.v)

\* async loadYAMLBlueprint(filePath) at the time now: the blueprint
\* returned, or the error thrown when the file cannot be read or parsed, or
\* when the document is null or a scalar, on which telemetry cannot be set
loadYAMLBlueprint(file, now) ==
    IF file.kind # "document" \/ file.doc.t # "obj"
    THEN [thrown |-> TRUE, blueprint |-> Null]
    ELSE [thrown |-> FALSE,
          blueprint |-> stampTelemetry(addTelemetry(file.doc), now)]

----------------------------------------------------------------------------
(* runs of the validators *)

MaxCalls == 2

\* the blueprints read from the file: the good ones, ones with a value
\* replaced or deleted, one with an upper-case slug, one naming no doctrine,
\* and values that are no blueprint at all
BlueprintDocs ==
    LET good == GoodBlueprint(S("x"), Words)
    IN {GoodBlueprint(text, list) :
            text \in {S("x"), Str(<<>>)}, list \in {Words, Arr(<<>>)}}
       \cup {Put(good, p, d) : p \in Pointers(good), d \in Defects}
       \cup {Put(good, <<KeyStep(W("project_slug"))>>, S("X")),
             Put(good, <<KeyStep(W("meta")), KeyStep(W("doctrine"))>>, Words),
             Put(good, <<KeyStep(W("created_by"))>>, Str(YourProject)),
             Put(good, <<KeyStep(W("altitudes")), KeyStep(W("5000")),
                         KeyStep(W("agent_roles"))>>,
                 AllOf(<<"claude", "project_gpt", "whimsical_gpt", "sidecar",
                         "heir">>, Str(<<>>))),
             Null, S("x"), Num(0), Arr(<<>>)}

BlueprintFiles ==
    {FileMissing, FileUnreadable, FileUnparsable}
    \cup {FileOf(doc) : doc \in BlueprintDocs}

\* the pointer to a value of node n of branch b, and of the first node of
\* the first branch
NodeAt(b, n, keys) ==
    <<KeyStep(W("branches")), IdxStep(b), KeyStep(W("nodes")), IdxStep(n)>>
    \o [i \in 1..Len(keys) |-> KeyStep(W(keys[i]))]
NodePointer(keys) == NodeAt(1, 1, keys)

\* the files given to one CTBValidator: compliant documents, documents that
\* break one rule of the schema or of the doctrine, and files that cannot
\* be read
CTBFiles ==
    LET good == GoodCTB(1, 1)
    IN {FileMissing, FileUnreadable, FileUnparsable, FileOf(Null),
        FileOf(EmptyObj), FileOf(good), FileOf(GoodCTB(2, 2)),
        FileOf(Put(good, <<KeyStep(W("heir"))>>, Undefined)),
        FileOf(Put(good, <<KeyStep(W("star"))>>, Undefined)),
        FileOf(Put(good, <<KeyStep(W("schemas")), KeyStep(W("neon"))>>,
                   Undefined)),
        FileOf(Put(good, <<KeyStep(W("branches"))>>, Arr(<<>>))),
        FileOf(Put(good, NodePointer(<<"IMO", "middle">>), Undefined)),
        FileOf(Put(good, NodePointer(<<"IMO", "input">>), Arr(<<>>))),
        FileOf(Put(good, NodePointer(<<"ORBT", "repair">>), Arr(<<>>))),
        FileOf(Put(good, NodePointer(<<"IMO", "middle", "operations">>),
                   Arr(<<>>))),
        FileOf(Put(good, NodePointer(<<"IMO", "middle", "promotion", "gate">>),
                   Undefined)),
        FileOf(Put(good, NodePointer(<<"orientation">>), S("x")))}

\* documents of several nodes that break a rule in more than one node, or
\* more than one rule
ManyDefects ==
    LET two == GoodCTB(1, 2)
        noHeir == Put(GoodCTB(1, 1), <<KeyStep(W("heir"))>>, Undefined)
    IN {two,
        GoodCTB(2, 1),
        Put(Put(two, NodeAt(1, 1, <<"orientation">>), S("x")),
            NodeAt(1, 2, <<"orientation">>), S("x")),
        Put(Put(two, NodeAt(1, 1, <<"ORBT">>), Undefined),
            NodeAt(1, 2, <<"ORBT", "train">>), Undefined),
        Put(Put(two, NodeAt(1, 1, <<"IMO", "middle", "operations">>), Arr(<<>>)),
            NodeAt(1, 2, <<"IMO", "middle", "operations">>), Arr(<<>>)),
        Put(two, NodeAt(1, 2, <<"IMO">>), Undefined),
        Put(two, NodeAt(1, 2, <<>>), Null),
        Put(GoodCTB(2, 1), NodeAt(2, 1, <<"IMO", "middle", "promotion">>),
            Undefined),
        Put(noHeir, <<KeyStep(W("constraints"))>>, Undefined),
        Put(noHeir, <<KeyStep(W("schemas"))>>, Undefined),
        Put(noHeir, <<KeyStep(W("branches"))>>, Undefined),
        Put(noHeir, <<KeyStep(W("branches"))>>, EmptyObj),
        Put(noHeir, NodePointer(<<"orientation">>), S("x")),
        Put(noHeir, NodePointer(<<>>), Null),
        Put(GoodCTB(1, 1),
            NodePointer(<<"IMO", "middle", "promotion", "gate">>), Bool(FALSE))}

\* the blueprints handed to validateDoctrine, and the documents of the
\* files given to the script validate-ctb
DoctrineBlueprints ==
    LET good == GoodCTB(1, 1)
    IN {good, GoodCTB(2, 2), Null, S("x"), EmptyObj}
       \cup {Put(good, p, d) : p \in Pointers(good), d \in Defects}
       \cup ManyDefects

\* the files given to the script validate-ctb
CTBMainFiles ==
    {FileMissing, FileUnreadable, FileUnparsable}
    \cup {FileOf(doc) : doc \in DoctrineBlueprints}

\* the files given to the script ctb-doctrine-builder, NoFile standing for
\* a command line without blueprint path: the documents whose telemetry is
\* an object or is falsy
YAMLFiles ==
    {file \in CTBMainFiles :
        file.kind = "document" =>
            LET telemetry == Get(file.doc, W("telemetry"))
            IN telemetry.t = "obj" \/ ~Truthy(telemetry)}
    \cup {NoFile}

\* the values of new Date().toISOString()
Timestamps == {<<"2025-01-01T00:00:00.000Z">>, <<"2025-01-02T00:00:00.000Z">>}

InitValidate ==
    /\ program \in {"validate", "validate-ctb", "CTBValidator", "ctb-dashboard",
                    "ctb-doctrine-builder"}
    /\ IF program = "validate"
       THEN blueprintFile \in BlueprintFiles \cup {NoFile}
            /\ writable \in BOOLEAN
            /\ blueprintResult = NoBlueprintResult
       ELSE BlueprintIdle
    /\ CTBIdle
    /\ IF program = "ctb-dashboard"
       THEN doctrineBlueprint \in DoctrineBlueprints
            /\ doctrineResult = NoDoctrineResult
       ELSE DoctrineIdle
    /\ IF program = "ctb-doctrine-builder"
       THEN yamlFile \in YAMLFiles
       ELSE yamlFile = NoFile
    /\ exitCode = NotExited
    /\ whimsicalExport = NotExported
    /\ PathIdle
    /\ SchemaIdle
    /\ ScoreIdle
    /\ RestIdle

\* process.exit(result.isValid ? 0 : 1)
ExitOn(valid) == Exit(IF valid THEN 0 ELSE 1)

\* main of scripts/validate.ts: without argument the usage and exit code 1;
\* else validator.validateBlueprint(filePath), printResults and the exit
ValidateBlueprint ==
    /\ program = "validate"
    /\ ~exitCode.exited
    /\ IF blueprintFile = NoFile
       THEN /\ exitCode' = Exit(1)
            /\ UNCHANGED <<blueprintResult, blueprintFile>>
       ELSE LET done == validateBlueprint(blueprintFile, writable)
            IN /\ blueprintResult' = [called |-> TRUE, result |-> done.result]
               /\ blueprintFile' = done.file
               /\ exitCode' = ExitOn(done.result.isValid)
    /\ UNCHANGED <<program, writable, ctbFile, ctbCalls, ctbResult,
                   doctrineBlueprint, doctrineResult, yamlFile,
                   whimsicalExport, pathVars, schemaVars, scoreVars, restVars>>

\* validator.validate(filePath) on the one instance: this.result after the
\* call is the object the call returns. The script validate-ctb makes one
\* call; a program that imports CTBValidator makes up to MaxCalls calls
CTBValidate ==
    /\ program \in {"validate-ctb", "CTBValidator"}
    /\ ctbCalls < (IF program = "validate-ctb" THEN 1 ELSE MaxCalls)
    /\ \E file \in (IF program = "validate-ctb" THEN CTBMainFiles
                    ELSE CTBFiles) :
          /\ ctbFile' = file
          /\ ctbResult' = validate(ctbResult, file)
    /\ ctbCalls' = ctbCalls + 1
    /\ exitCode' = IF program = "validate-ctb" THEN ExitOn(ctbResult'.valid)
                   ELSE exitCode
    /\ UNCHANGED <<program, blueprintFile, writable, blueprintResult,
                   doctrineBlueprint, doctrineResult, yamlFile,
                   whimsicalExport, pathVars, schemaVars, scoreVars, restVars>>

\* CTBDoctrineBuilder.validateDoctrine(blueprint)
ValidateDoctrine ==
    /\ program = "ctb-dashboard"
    /\ ~doctrineResult.called
    /\ doctrineResult' =
          [called |-> TRUE, result |-> validateDoctrine(doctrineBlueprint)]
    /\ UNCHANGED <<program, blueprintFile, writable, blueprintResult, ctbFile,
                   ctbCalls, ctbResult, doctrineBlueprint, yamlFile, exitCode,
                   whimsicalExport, pathVars, schemaVars, scoreVars, restVars>>

\* the blueprint loaded, validateDoctrine(blueprint) and
\* process.exit(validation.valid ? 0 : 1)
validateCommand(loaded) ==
    /\ doctrineBlueprint' = loaded
    /\ doctrineResult' = [called |-> TRUE, result |-> validateDoctrine(loaded)]
    /\ exitCode' = ExitOn(doctrineResult'.result.valid)

\* main of the doctrine builder with the command validate: without
\* blueprint path exit code 1; else loadYAMLBlueprint(blueprintPath), whose
\* error the catch of main turns into exit code 1, and the validate command
BuilderValidate ==
    /\ program = "ctb-doctrine-builder"
    /\ ~exitCode.exited
    /\ \E now \in Timestamps :
          IF loadYAMLBlueprint(yamlFile, now).thrown
          THEN /\ exitCode' = Exit(1)
               /\ UNCHANGED <<doctrineBlueprint, doctrineResult>>
          ELSE validateCommand(loadYAMLBlueprint(yamlFile, now).blueprint)
    /\ UNCHANGED <<program, blueprintFile, writable, blueprintResult, ctbFile,
                   ctbCalls, ctbResult, yamlFile, whimsicalExport, pathVars,
                   schemaVars, scoreVars, restVars>>

\* exporter.exportForWhimsical(filePath) on the file a run of validate.ts
\* has left
ExportForWhimsical ==
    /\ program = "validate"
    /\ blueprintResult.called
    /\ ~whimsicalExport.called
    /\ whimsicalExport' = exportForWhimsical(blueprintFile)
    /\ UNCHANGED <<program, blueprintFile, writable, blueprintResult, ctbFile,
                   ctbCalls, ctbResult, doctrineBlueprint, doctrineResult,
                   yamlFile, exitCode, pathVars, schemaVars, scoreVars, restVars>>

NextValidate ==
    \/ ValidateBlueprint
    \/ CTBValidate
    \/ ValidateDoctrine
    \/ BuilderValidate
    \/ ExportForWhimsical

SpecValidate == InitValidate /\ [][NextValidate]_vars
----------------------------------------------------------------------------
(* claims about the results of the validators *)

\* C9 as claimed: every result a validation entry point returns with a
\* non-empty error list has its valid flag false, whatever return path
\* produced it: validateBlueprint (errors, isValid), CTBValidator.validate
\* (errors, valid) and validateDoctrine (violations, valid).
C9_ErrorsImplyInvalid ==
    /\ blueprintResult.called /\ Len(blueprintResult.result.errors) # 0
          => ~blueprintResult.result.isValid
    /\ ctbCalls > 0 /\ Len(ctbResult.errors) # 0 => ~ctbResult.valid
    /\ doctrineResult.called /\ Len(doctrineResult.result.violations) # 0
          => ~doctrineResult.result.valid

\* the result a call returned and the one a validator just constructed
\* returns for the same file agree
SameAsFresh(returned, fresh) ==
    /\ returned.errors = fresh.errors
    /\ returned.warnings = fresh.warnings
    /\ returned.doctrineChecks = fresh.doctrineChecks
    /\ fresh.valid => returned.valid /\ returned.errors = <<>>

\* C10 as claimed: what a call of validate returns depends on the document
\* of that call only, so after every call on a CTBValidator the errors,
\* warnings and doctrineChecks are those a validator just constructed returns
\* for the same file, and a file that such a validator finds compliant is
\* returned as valid with no errors.
C10_FreshResultPerCall ==
    ctbCalls > 0 => SameAsFresh(ctbResult, validate(NewResult, ctbFile))

----------------------------------------------------------------------------
(* claims about the doctrine checks *)

\* the six named predicates of checkDoctrine
Checks ==
    {"heirCanopy", "verticalIMO", "orbtDiscipline", "schemaGrounding",
     "promotionGates", "middleOperations"}

\* one predicate evaluated alone, by a validator just constructed
CheckAlone(bp, check) ==
    CASE check = "heirCanopy" -> checkHeirCanopy(bp, NewResult)
      [] check = "verticalIMO" -> checkVerticalIMO(bp, Doing(NewResult))
      [] check = "orbtDiscipline" -> checkORBTDiscipline(bp, Doing(NewResult))
      [] check = "schemaGrounding" -> checkSchemaGrounding(bp, Doing(NewResult))
      [] check = "promotionGates" -> checkPromotionGates(bp, Doing(NewResult))
      [] check = "middleOperations" ->
           checkMiddleOperations(bp, Doing(NewResult))

\* every element of the list a is an element of the list b
AllIn(a, b) == \A i \in 1..Len(a) : \E j \in 1..Len(b) : b[j] = a[i]

\* the result carries what the predicate evaluated alone reports
Reported(result, alone, check) ==
    /\ ~alone.thrown
    /\ result.doctrineChecks[check] = alone.r.doctrineChecks[check]
    /\ AllIn(alone.r.errors, result.errors)
    /\ AllIn(alone.r.warnings, result.warnings)

\* C11 as claimed: for every document that parsed, checkDoctrine runs to its
\* end (no exception cuts it short) and the result of validate carries, for
\* each of the six predicates, the check value and the failures that the
\* predicate evaluated alone reports.
C11_NeverShortCircuits ==
    ctbCalls = 1 /\ ctbFile.kind = "document" =>
        /\ ~AllIn(<<FailedErr>>, ctbResult.errors)
        /\ \A check \in Checks :
              Reported(ctbResult, CheckAlone(ctbFile.doc, check), check)

\* how many strings of one kind a list of errors holds
CountKind(errors, kind) ==
    Cardinality({i \in 1..Len(errors) : errors[i].kind = kind})

\* the DOCTRINE strings about a node, and the condition each one reports
NodeKinds ==
    {"not_vertical", "incomplete_imo", "missing_orbt", "missing_operations",
     "missing_orchestrator"}
NodeFails(node, kind) ==
    CASE kind = "not_vertical" -> Get(node, W("orientation")) # S("vertical")
      [] kind = "incomplete_imo" -> IncompleteIMO(node)
      [] kind = "missing_orbt" -> IncompleteORBT(node)
      [] kind = "missing_operations" -> NoOperations(node)
      [] kind = "missing_orchestrator" -> NoOrchestrator(node)

\* how many nodes of a document fail a condition
NodesFailing(walk, kind) ==
    Cardinality({i \in 1..Len(walk) : NodeFails(walk[i].node, kind)})

\* the DOCTRINE strings of each named predicate
KindsOf(check) ==
    CASE check = "heirCanopy" -> {"heir_required"}
      [] check = "verticalIMO" -> {"not_vertical", "incomplete_imo"}
      [] check = "orbtDiscipline" -> {"missing_orbt"}
      [] check = "schemaGrounding" -> {"schema_grounding"}
      [] check = "promotionGates" -> {}
      [] check = "middleOperations" ->
           {"missing_operations", "missing_orchestrator"}

\* the CONSTRAINT strings, each with its key of the constraints block and
\* the check it repeats
ConstraintKinds ==
    {<<"constraint_heir", "require_heir_canopy", "heirCanopy">>,
     <<"constraint_imo", "require_vertical_imo", "verticalIMO">>,
     <<"constraint_orbt", "require_orbt_per_node", "orbtDiscipline">>,
     <<"constraint_schemas", "require_schemas_base", "schemaGrounding">>}

\* a first call of validate on a document that parsed, on which checkDoctrine
\* ran to its end
DoctrineCompleted ==
    /\ ctbCalls = 1
    /\ ctbFile.kind = "document"
    /\ ~AllIn(<<FailedErr>>, ctbResult.errors)

\* the number of DOCTRINE and CONSTRAINT strings of a result
DoctrineStrings(result) == Len(result.errors) - CountKind(result.errors, "schema")

\* C12 as claimed: after checkDoctrine the number of DOCTRINE/CONSTRAINT
\* error strings equals the number of named predicates whose check is false.
C12_OneStringPerFailedPredicate ==
    DoctrineCompleted =>
        DoctrineStrings(ctbResult)
            = Cardinality({check \in Checks : ~ctbResult.doctrineChecks[check]})

\* the count of every kind of string on a completed checkDoctrine
StringsPerFailure(result, bp) ==
    /\ \A check \in Checks :
          result.doctrineChecks[check]
              = (\A kind \in KindsOf(check) : CountKind(result.errors, kind) = 0)
    /\ \A check \in {"heirCanopy", "schemaGrounding"} :
          \A kind \in KindsOf(check) : CountKind(result.errors, kind) <= 1
    /\ \A kind \in NodeKinds :
          CountKind(result.errors, kind) = NodesFailing(NodeWalk(bp), kind)
    /\ \A c \in ConstraintKinds :
          CountKind(result.errors, c[1])
              = IF /\ Truthy(Get(bp, W("constraints")))
                   /\ Truthy(Get(Get(bp, W("constraints")), W(c[2])))
                   /\ ~result.doctrineChecks[c[3]]
                THEN 1 ELSE 0

\* C12, amended: after a checkDoctrine that completes, a named check is false
\* exactly when at least one DOCTRINE string of that predicate was appended;
\* heirCanopy and schemaGrounding append one string, the predicates over the
\* nodes one string per node and failed condition, and the constraints block
\* one CONSTRAINT string more for every required check that is false.
C12_StringsPerFailure ==
    DoctrineCompleted => StringsPerFailure(ctbResult, ctbFile.doc)

\* C12: a document whose two nodes both fail the orientation test, with the
\* constraint on vertical IMO required
C12_Witness ==
    /\ DoctrineCompleted
    /\ CountKind(ctbResult.errors, "not_vertical") = 2
    /\ CountKind(ctbResult.errors, "constraint_imo") = 1
    /\ ~ctbResult.doctrineChecks["verticalIMO"]

\* a document without a heir object, and the same document with a valid one
LacksHeir(doc) == doc.t = "obj" /\ Get(doc, W("heir")).t # "obj"
GoodHeir == Get(GoodCTB(1, 1), W("heir"))
WithHeir(doc) == Put(doc, <<KeyStep(W("heir"))>>, GoodHeir)

\* the result for a document without heir against the result for the same
\* document with a heir
HeirAlone(result, withHeir) ==
    /\ CountKind(result.errors, "heir_required") = 1
    /\ ~result.doctrineChecks["heirCanopy"]
    /\ withHeir.doctrineChecks["heirCanopy"]
    /\ CountKind(withHeir.errors, "heir_required") = 0
    /\ \A check \in Checks \ {"heirCanopy"} :
          result.doctrineChecks[check] = withHeir.doctrineChecks[check]

\* C13: for a document lacking a heir object the doctrine check of a
\* validator just constructed appends the HEIR error and leaves heirCanopy
\* false, and each of the five other checks has the value it has for the
\* same document with a valid heir added.
C13_HeirDoesNotMoveOtherChecks ==
    ctbCalls = 1 /\ ctbFile.kind = "document" /\ LacksHeir(ctbFile.doc) =>
        HeirAlone(ctbResult, validate(NewResult, FileOf(WithHeir(ctbFile.doc))))

\* C13: a document without heir on which another check fails and a third
\* one passes
C13_Witness ==
    /\ DoctrineCompleted
    /\ LacksHeir(ctbFile.doc)
    /\ CountKind(ctbResult.errors, "heir_required") = 1
    /\ ~ctbResult.doctrineChecks["verticalIMO"]
    /\ ctbResult.doctrineChecks["orbtDiscipline"]

\* whether checkDoctrine runs to its end on a document
Completes(doc) == ~checkDoctrine(doc, NewResult).thrown

\* the nodes of a document that define no IMO.middle.promotion.gate
NodesWithoutGate(walk) ==
    {i \in 1..Len(walk) :
        OptGet(Middle(walk[i].node, W("promotion")), W("gate")) = Undefined}

\* C14: the promotion-gate check never fires: no call of validate adds a
\* 'missing promotion gate definition' warning, and after every call on a
\* document on which checkDoctrine completes promotionGates is true, whether
\* or not the nodes define IMO.middle.promotion.gate.
C14_PromotionGateNeverFires ==
    /\ CountKind(ctbResult.warnings, "missing_gate") = 0
    /\ ctbCalls > 0 /\ ctbFile.kind = "document" /\ Completes(ctbFile.doc) =>
          ctbResult.doctrineChecks["promotionGates"]

\* C14: a completed check of a document with a node that defines no gate
C14_Witness ==
    /\ ctbCalls > 0
    /\ ctbFile.kind = "document"
    /\ Completes(ctbFile.doc)
    /\ NodesWithoutGate(NodeWalk(ctbFile.doc)) # {}
    /\ ctbResult.doctrineChecks["promotionGates"]

\* IMO.middle of a node holds an orchestrator name, a non-empty operations
\* list and a gate that is a boolean
MiddleSatisfied(node) ==
    /\ OptGet(Middle(node, W("orchestration")), W("orchestrator")).t = "str"
    /\ OptGet(Middle(node, W("orchestration")), W("orchestrator")).v # <<>>
    /\ Middle(node, W("operations")).t = "arr"
    /\ Middle(node, W("operations")).v # <<>>
    /\ OptGet(Middle(node, W("promotion")), W("gate")).t = "bool"

\* the reports of the two checkers about the middle stage of a node
MiddleKinds ==
    {"missing_operations", "missing_orchestrator", "missing_orchestration",
     "missing_gate"}
MiddleReports(list) == {i \in 1..Len(list) : list[i].kind \in MiddleKinds}

\* a middle-stage report is present exactly when a node of the document
\* does not satisfy the middle-stage rules
MiddleRules(reports, walk) ==
    (MiddleReports(reports) # {})
        <=> (\E i \in 1..Len(walk) : ~MiddleSatisfied(walk[i].node))

\* the middle-stage rules as CTBValidator.checkDoctrine enforces them
MiddleRulesCTB ==
    DoctrineCompleted =>
        MiddleRules(ctbResult.errors \o ctbResult.warnings,
                    NodeWalk(ctbFile.doc))

\* the middle-stage rules as validateDoctrine enforces them, on a blueprint
\* whose constraints require vertical IMO
MiddleRulesDoctrine ==
    /\ doctrineResult.called
    /\ ~AllIn(<<FailedErr>>, doctrineResult.result.violations)
    /\ Truthy(Get(Get(doctrineBlueprint, W("constraints")),
                  W("require_vertical_imo")))
    => MiddleRules(doctrineResult.result.violations,
                   NodeWalk(doctrineBlueprint))

\* C15 as claimed: both doctrine checkers report a violation about the
\* middle stage exactly for the documents with a node whose IMO.middle lacks
\* the orchestrator name, the non-empty operations list or the boolean gate,
\* and so none for a node whose gate is the boolean false.
C15_MiddleStageRules == MiddleRulesCTB /\ MiddleRulesDoctrine

----------------------------------------------------------------------------
(* claims about the scripts *)

\* a script that has validated exits with 0 exactly when the list is empty
ExitFollows(errors) ==
    /\ exitCode.exited
    /\ exitCode.code \in {0, 1}
    /\ exitCode.code = 0 <=> errors = <<>>

\* the exit code of each of the three scripts after a validation
ExitOfValidate ==
    program = "validate" /\ blueprintResult.called =>
        ExitFollows(blueprintResult.result.errors)
ExitOfValidateCTB ==
    program = "validate-ctb" /\ ctbCalls > 0 => ExitFollows(ctbResult.errors)
ExitOfBuilder ==
    program = "ctb-doctrine-builder" /\ doctrineResult.called =>
        ExitFollows(doctrineResult.result.violations)

\* C16 as claimed: each validator script exits with code 0 iff the
\* validation reported no error, and with code 1 whenever the error list of
\* the result is non-empty.
C16_ExitCodeFollowsErrors ==
    ExitOfValidate /\ ExitOfValidateCTB /\ ExitOfBuilder

\* a run of validate.ts on a file that is not JSON: the result returned is
\* the initial one with the one error, and the file is left as it was
BlueprintParseAbort ==
    program = "validate" /\ blueprintFile.kind = "unparsable"
    /\ blueprintResult'.called =>
        /\ blueprintResult'.result
              = [NewBlueprintResult EXCEPT
                    !.errors = <<Err("invalid_json", <<>>)>>]
        /\ ~blueprintResult'.result.isValid
        /\ blueprintResult'.result.completeness = 0
        /\ blueprintFile' = blueprintFile

\* a call of CTBValidator.validate on a file that is not YAML: one error is
\* appended and valid is false, no check is set and no warning added; on a
\* validator just constructed the error is the only one
CTBParseAbort ==
    ctbCalls' = ctbCalls + 1 /\ ctbFile'.kind = "unparsable" =>
        /\ ctbResult' = [ctbResult EXCEPT
                            !.errors = Append(@, Err("invalid_yaml", <<>>)),
                            !.valid = FALSE]
        /\ ctbCalls = 0 =>
              /\ ctbResult'.errors = <<Err("invalid_yaml", <<>>)>>
              /\ ctbResult'.warnings = <<>>
              /\ \A check \in Checks : ~ctbResult'.doctrineChecks[check]

\* C17: when the document fails to parse, validation aborts: the result is
\* invalid and holds the one top-level error, no schema, custom-rule or
\* doctrine check has left an error, a warning, a suggestion or a check
\* value, completeness stays 0 and the file is not written.
C17_ParseFailureAborts == [][BlueprintParseAbort /\ CTBParseAbort]_vars

\* C17: the blueprint validator has returned from a file that is not JSON
C17_Witness ==
    /\ program = "validate"
    /\ blueprintResult.called
    /\ blueprintFile = FileUnparsable
    /\ blueprintResult.result.errors = <<Err("invalid_json", <<>>)>>
    /\ exitCode = Exit(1)

----------------------------------------------------------------------------
(* claims about the stamps *)

RECURSIVE WithoutFields(_, _)
\* a document without the fields under some pointers
WithoutFields(doc, pointers) ==
    IF pointers = <<>> THEN doc
    ELSE WithoutFields(Put(doc, Head(pointers), Undefined), Tail(pointers))

\* the hash field validateBlueprint stamps, and the two status flags it sets
HashField == <<KeyStep(W("meta")), KeyStep(W("blueprint_version_hash"))>>
StatusFields ==
    <<<<KeyStep(W("status_flags")), KeyStep(W("is_validated"))>>,
      <<KeyStep(W("status_flags")), KeyStep(W("is_whimsical_ready"))>>>>

\* validateBlueprint has written the file back, and the fields under the
\* pointers aside the document is the one read
WrittenSameExcept(pointers) ==
    program = "validate" /\ blueprintFile' # blueprintFile =>
        /\ blueprintFile.kind = "document"
        /\ blueprintFile'.kind = "document"
        /\ WithoutFields(blueprintFile'.doc, pointers)
              = WithoutFields(blueprintFile.doc, pointers)

\* the blueprint loadYAMLBlueprint returns against the document of the file:
\* the fields outside telemetry are those of the document, and so are the
\* fields of telemetry other than version_hash and timestamp_iso
TelemetryFrame(doc, loaded) ==
    /\ DOMAIN loaded.v = DOMAIN doc.v \cup {W("telemetry")}
    /\ \A k \in DOMAIN doc.v \ {W("telemetry")} : loaded.v[k] = doc.v[k]
    /\ WithoutFields(loaded.v[W("telemetry")],
                     <<<<KeyStep(W("version_hash"))>>,
                       <<KeyStep(W("timestamp_iso"))>>>>)
          = IF Truthy(Get(doc, W("telemetry")))
            THEN WithoutFields(Get(doc, W("telemetry")),
                               <<<<KeyStep(W("version_hash"))>>,
                                 <<KeyStep(W("timestamp_iso"))>>>>)
            ELSE EmptyObj

\* the doctrine builder has loaded the file
LoadedSameExceptStamp ==
    program = "ctb-doctrine-builder" /\ doctrineResult'.called =>
        TelemetryFrame(yamlFile.doc, doctrineBlueprint')

\* C18 as claimed: when validation stamps a document, every field other than
\* the stamped hash field and the timestamp field has the value it had.
C18_OnlyHashAndTimestampChange ==
    [][WrittenSameExcept(<<HashField>>) /\ LoadedSameExceptStamp]_vars

\* C18, amended: validateBlueprint writing the file back changes
\* meta.blueprint_version_hash and the two flags status_flags.is_validated
\* and status_flags.is_whimsical_ready, and no other field; loadYAMLBlueprint
\* changes telemetry.version_hash and telemetry.timestamp_iso (telemetry
\* being made an object when the document has none) and no other field.
C18_OnlyStampAndFlagsChange ==
    [][WrittenSameExcept(<<HashField>> \o StatusFields)
       /\ LoadedSameExceptStamp]_vars

\* C18: a blueprint written back with the hash stamped and is_validated set
C18_Witness ==
    /\ program = "validate"
    /\ blueprintResult.called
    /\ blueprintResult.result.isValid
    /\ blueprintFile.kind = "document"
    /\ Get(Get(blueprintFile.doc, W("status_flags")), W("is_validated"))
          = Bool(TRUE)
    /\ Get(Get(blueprintFile.doc, W("meta")), W("blueprint_version_hash")).v
          # <<>>

\* validateBlueprint has written the blueprint back
Written ==
    /\ program = "validate"
    /\ blueprintResult.called
    /\ blueprintResult.result.isValid
    /\ blueprintResult.result.errors = <<>>
    /\ blueprintFile.kind = "document"

\* the hash of a blueprint is the hash of every blueprint that differs from
\* it in meta or in status_flags only
HashIgnoresMetaAndFlags(bp) ==
    \A key \in {W("meta"), W("status_flags")} :
        \A other \in Defects \cup {S("x"), Get(GoodCTB(1, 1), W("meta"))} :
            generateBlueprintHash(Put(bp, <<KeyStep(key)>>, other))
                = generateBlueprintHash(bp)

\* a second validation of the file the first one wrote: it is valid again,
\* with the same completeness, and leaves the same file with the same hash
SecondValidation(first, file, second) ==
    /\ second.result = first
    /\ second.file = file
    /\ Get(Get(second.file.doc, W("meta")), W("blueprint_version_hash"))
          = generateBlueprintHash(file.doc)

\* C19: blueprints that differ only in meta and status_flags get the same
\* blueprint_version_hash, and validating the file a validation has written,
\* unedited, writes the same hash and the same file content.
C19_StampIsStable ==
    Written =>
        /\ HashIgnoresMetaAndFlags(blueprintFile.doc)
        /\ SecondValidation(blueprintResult.result, blueprintFile,
                            validateBlueprint(blueprintFile, TRUE))

\* C19: a blueprint written back with a hash over its content
C19_Witness ==
    /\ Written
    /\ Get(Get(blueprintFile.doc, W("meta")), W("blueprint_version_hash"))
          = generateBlueprintHash(blueprintFile.doc)
    /\ Len(generateBlueprintHash(blueprintFile.doc).v) > 3

\* the pointers to the fields of a document outside meta and status_flags,
\* at any depth
ContentPointers(doc) ==
    {p \in Pointers(doc) :
        p[1] \notin {KeyStep(W("meta")), KeyStep(W("status_flags"))}}

\* the stamp of a document: the blueprint_version_hash of validate.ts, or the
\* version_hash of the doctrine builder
StampOf(script, doc) ==
    IF script = "validate" THEN generateBlueprintHash(doc)
    ELSE generateVersionHash(doc)

\* every change of the value of a content field changes the stamp
ChangesWithContent(script, doc) ==
    \A p \in ContentPointers(doc) :
        \A other \in {S("y"), Num(1)} :
            Put(doc, p, other) # doc =>
                StampOf(script, Put(doc, p, other)) # StampOf(script, doc)

\* C20 as claimed: two blueprints that differ in the value of a field outside
\* meta and status_flags, at any depth, give different serialized content
\* and so different stamps, in generateBlueprintHash and generateVersionHash.
C20_StampChangesWithContent ==
    /\ Written => ChangesWithContent("validate", blueprintFile.doc)
    /\ program = "ctb-doctrine-builder" /\ doctrineResult.called =>
          ChangesWithContent("ctb-doctrine-builder", doctrineBlueprint)

----------------------------------------------------------------------------
(* claims about the write-back and the export *)

\* the flags of the file a validation without error has written
FlagsFollowCompleteness ==
    Written =>
        /\ Get(Get(blueprintFile.doc, W("status_flags")), W("is_validated"))
              = Bool(TRUE)
        /\ Get(Get(blueprintFile.doc, W("status_flags")),
               W("is_whimsical_ready"))
              = Bool(blueprintResult.result.completeness >= 80)

\* the exporter reports ready only with a completeness of its own of 80 or
\* more
ReadyOnlyWhenComplete ==
    whimsicalExport.called /\ ~whimsicalExport.thrown
    /\ Truthy(whimsicalExport.ready) =>
        whimsicalExport.completeness >= 80

\* C21 as claimed: the file written by a validation without error has
\* is_validated = true and is_whimsical_ready = true iff the computed
\* completeness is at least 80, and the exporter reports ready only for
\* blueprints whose completeness, as the exporter computes it, is at least 80.
C21_ReadyMeansComplete == FlagsFollowCompleteness /\ ReadyOnlyWhenComplete

\* a run of validateBlueprint that returns errors leaves the file as it was
ErrorsLeaveFile ==
    program = "validate" /\ ~blueprintResult.called /\ blueprintResult'.called
    /\ blueprintResult'.result.errors # <<>> =>
        blueprintFile' = blueprintFile

----------------------------------------------------------------------------
(* CTBBuilder.convertIMOToCTB of the dashboard *)

\* a || b
OrElse(a, b) == IF Truthy(a) THEN a ELSE b

RECURSIVE joinWith(_, _, _)
\* Array.prototype.join(sep), from item i on
joinWith(items, sep, i) ==
    IF i > Len(items) THEN <<>>
    ELSE (IF i > 1 THEN <<sep>> ELSE <<>>)
         \o (IF GetThrows(items[i]) THEN <<>> ELSE TemplateText(items[i]))
         \o joinWith(items, sep, i + 1)

\* x?.length > 0 (the length of an array or of a string; no drawn object
\* has a key named length)
HasLength(x) ==
    LET n == OptGet(x, W("length")) IN n.t = "num" /\ n.v > 0

\* x.join is not a function: x is no array
JoinThrows(x) == ~IsArray(x)

\* a node of the tree with its eight texts
TreeNode(label, given, middle, output, operate, repair, build, train) ==
    Obj(W("label") :> label
        @@ W("IMO") :> Obj(W("input") :> given @@ W("middle") :> middle
                           @@ W("output") :> output)
        @@ W("ORBT") :> Obj(W("operate") :> operate @@ W("repair") :> repair
                            @@ W("build") :> build @@ W("train") :> train))

\* what a part of the conversion yields: the nodes or branches it pushes,
\* or a TypeError
Pushed(items) == [thrown |-> FALSE, items |-> items]
PushThrown == [thrown |-> TRUE, items |-> <<>>]
\* two parts one after the other
Both(a, b) ==
    IF a.thrown \/ b.thrown THEN PushThrown ELSE Pushed(a.items \o b.items)
\* branches.push({name, nodes}) when the nodes are not empty
BranchOf(name, nodes) ==
    IF nodes.thrown THEN PushThrown
    ELSE IF Len(nodes.items) > 0
    THEN Pushed(<<Obj(W("name") :> S(name) @@ W("nodes") :> Arr(nodes.items))>>)
    ELSE Pushed(<<>>)

\* the Strategic Vision branch (30,000ft)
strategicBranch(a30) ==
    IF ~Truthy(a30) THEN Pushed(<<>>)
    ELSE BranchOf("Strategic Vision",
            Pushed(<<TreeNode(S("Project Objectives"),
                S("Business requirements and stakeholder needs"),
                OrElse(Get(a30, W("objective")), S("Define project vision")),
                S("Clear success criteria and stakeholder alignment"),
                S("Monitor project alignment with business objectives"),
                S("Realign project scope when objectives drift"),
                S("Establish governance and decision-making frameworks"),
                S("Stakeholder communication and expectation management"))>>))

\* the System Components node
componentsNode(components) ==
    IF ~HasLength(components) THEN Pushed(<<>>)
    ELSE IF JoinThrows(components) THEN PushThrown
    ELSE Pushed(<<TreeNode(S("System Components"),
            S("Requirements and technical constraints"),
            Str(<<"Architect: ">> \o joinWith(components.v, ", ", 1)),
            S("Component specifications and interfaces"),
            S("Monitor component performance and health"),
            S("Debug and fix component integration issues"),
            S("Develop and deploy system components"),
            S("Component architecture documentation and onboarding"))>>)

\* x?.join(sep) || 'N/A' raises: x is given and is no array
ListedThrows(x) == ~GetThrows(x) /\ JoinThrows(x)
\* x?.join(sep) || 'N/A'
Listed(x, sep) ==
    IF GetThrows(x) \/ joinWith(x.v, sep, 1) = <<>> THEN <<"N/A">>
    ELSE joinWith(x.v, sep, 1)

\* the Process Flow node
processNode(roles, stages) ==
    IF ~(HasLength(roles) \/ HasLength(stages)) THEN Pushed(<<>>)
    ELSE IF ListedThrows(roles) \/ ListedThrows(stages) THEN PushThrown
    ELSE Pushed(<<TreeNode(S("Process Flow"),
            Str(<<"Roles: ">> \o Listed(roles, ", ")),
            Str(<<"Stages: ">> \o Listed(stages, " -> ")),
            S("Workflow and role definitions"),
            S("Execute stage transitions and role handoffs"),
            S("Resolve workflow bottlenecks and role conflicts"),
            S("Design process automation and tooling"),
            S("Role-specific training and process documentation"))>>)

\* the System Architecture branch (20,000ft)
systemBranch(a20) ==
    IF ~Truthy(a20) THEN Pushed(<<>>)
    ELSE BranchOf("System Architecture",
            Both(componentsNode(Get(a20, W("components"))),
                 processNode(Get(a20, W("roles")), Get(a20, W("stages")))))

\* the Implementation Steps node; steps.slice(0, 3) of a string is a
\* string, which has no join
stepsNode(steps) ==
    IF ~HasLength(steps) THEN Pushed(<<>>)
    ELSE IF JoinThrows(steps) THEN PushThrown
    ELSE Pushed(<<TreeNode(S("Implementation Steps"),
            S("Technical specifications and requirements"),
            Str(<<"Execute: ">>
                \o joinWith(SubSeq(steps.v, 1, IF Len(steps.v) > 3 THEN 3
                                                ELSE Len(steps.v)), ", ", 1)
                \o (IF Len(steps.v) > 3 THEN <<"...">> ELSE <<>>)),
            S("Working features and functionality"),
            S("Monitor implementation progress and quality"),
            S("Fix bugs and technical debt"),
            S("Develop features according to specifications"),
            S("Code reviews and technical documentation"))>>)

\* the APIs & Services node
apisNode(apis_services) ==
    IF ~HasLength(apis_services) THEN Pushed(<<>>)
    ELSE IF JoinThrows(apis_services) THEN PushThrown
    ELSE Pushed(<<TreeNode(S("APIs & Services"),
            S("Service requirements and integration needs"),
            Str(<<"Integrate: ">> \o joinWith(apis_services.v, ", ", 1)),
            S("Working API connections and service integrations"),
            S("Monitor API health and service availability"),
            S("Fix integration issues and service failures"),
            S("Implement API connections and service layers"),
            S("API documentation and service operation guides"))>>)

\* the Implementation branch (10,000ft)
implementationBranch(a10) ==
    IF ~Truthy(a10) THEN Pushed(<<>>)
    ELSE BranchOf("Implementation",
            Both(stepsNode(Get(a10, W("steps"))),
                 apisNode(Get(a10, W("apis_services")))))

\* Object.values(x) of any value: the characters of a string as well
ValuesOf(x) ==
    IF x.t = "str" THEN [i \in 1..Len(x.v) |-> Str(<<x.v[i]>>)]
    ELSE IF x.t \in {"obj", "arr"} THEN ObjectValues(x)
    ELSE <<>>

\* the Agent Coordination node with its hooks in every mode
agentNodeHooked(agentRoles, m) ==
    IF ~(Truthy(agentRoles)
         /\ \E i \in 1..Len(ValuesOf(agentRoles)) :
                Truthy(ValuesOf(agentRoles)[i]))
    THEN Pushed(<<>>)
    ELSE Pushed(<<Obj(W("orchestrator") :> S("main_coordinator")
                      @@ W("sub_agent") :> S("task_distributor")
                      @@ GoodNode.v)>>)

\* the Agent Coordination node, with its hooks in garage-mcp mode only
agentNode(agentRoles, m) ==
    IF ~(Truthy(agentRoles)
         /\ \E i \in 1..Len(ValuesOf(agentRoles)) :
                Truthy(ValuesOf(agentRoles)[i]))
    THEN Pushed(<<>>)
    ELSE LET node ==
               TreeNode(S("Agent Coordination"),
                 S("Task requirements and coordination needs"),
                 S("Coordinate between Claude, Project GPT, Whimsical GPT, Sidecar, and HEIR agents"),
                 S("Coordinated task execution and handoffs"),
                 S("Orchestrate agent workflows and communications"),
                 S("Resolve agent conflicts and coordination issues"),
                 S("Implement agent integration and communication protocols"),
                 S("Agent operation guides and handoff procedures"))
         IN IF m = "garage-mcp"
            THEN Pushed(<<Obj(W("orchestrator") :> S("main_coordinator")
                              @@ W("sub_agent") :> S("task_distributor")
                              @@ node.v)>>)
            ELSE Pushed(<<node>>)

\* the Documentation & Handoffs node
handoffsNode(documentation_plan, handoffs) ==
    IF ~(HasLength(documentation_plan) \/ HasLength(handoffs))
    THEN Pushed(<<>>)
    ELSE Pushed(<<TreeNode(S("Documentation & Handoffs"),
            S("Knowledge and deliverable requirements"),
            S("Document processes and execute clean handoffs"),
            S("Complete documentation and successful knowledge transfer"),
            S("Maintain documentation currency and execute handoffs"),
            S("Fix documentation gaps and handoff failures"),
            S("Create comprehensive documentation and handoff procedures"),
            S("Documentation standards and handoff protocols"))>>)

\* the Tactical Execution branch (5,000ft)
tacticalBranch(a5, m) ==
    IF ~Truthy(a5) THEN Pushed(<<>>)
    ELSE BranchOf("Tactical Execution",
            Both(agentNode(Get(a5, W("agent_roles")), m),
                 handoffsNode(Get(a5, W("documentation_plan")),
                              Get(a5, W("handoffs")))))

\* const star = {name: ...}; a name that is undefined is a missing key to
\* every reader of the object
starOf(name) ==
    IF name = Undefined THEN EmptyObj ELSE Obj(W("name") :> name)

\* the tree of a blueprint whose altitudes["30000"] can be read
treeOf(imo, altitudes, m) ==
    LET branches ==
          Both(Both(strategicBranch(Get(altitudes, W("30000"))),
                    systemBranch(Get(altitudes, W("20000")))),
               Both(implementationBranch(Get(altitudes, W("10000"))),
                    tacticalBranch(Get(altitudes, W("5000")), m)))
    IN IF branches.thrown THEN [thrown |-> TRUE, val |-> Null]
       ELSE [thrown |-> FALSE,
             val |-> Obj(W("star") :>
                           starOf(OrElse(Get(Get(altitudes, W("30000")),
                                             W("project_name")),
                                         Get(imo, W("project_slug"))))
                         @@ W("branches") :> Arr(branches.items))]

\* convertIMOToCTB(imoBlueprint, mode): the tree, or a TypeError
convertIMOToCTB(imo, m) ==
    IF GetThrows(imo) \/ GetThrows(Get(imo, W("altitudes")))
       \/ GetThrows(Get(Get(imo, W("altitudes")), W("30000")))
    THEN [thrown |-> TRUE, val |-> Null]
    ELSE treeOf(imo, Get(imo, W("altitudes")), m)

----------------------------------------------------------------------------
(* CTBBuilder.renderCTB of the dashboard *)

RECURSIVE SumOf(_, _)
\* the sum of a list of numbers, from entry i on
SumOf(a, i) == IF i > Len(a) THEN 0 ELSE a[i] + SumOf(a, i + 1)

RECURSIVE Flat(_, _)
\* the concatenation of a list of lists, from entry i on
Flat(a, i) == IF i > Len(a) THEN <<>> ELSE a[i] \o Flat(a, i + 1)

\* the double forEach of renderCTBDiagram and of the checklist raises a
\* TypeError: star or a node part cannot be read, or a list is no array
NodeUnreadable(node) ==
    \/ GetThrows(node)
    \/ GetThrows(Get(node, W("IMO")))
    \/ GetThrows(Get(node, W("ORBT")))
BranchUnreadable(branch) ==
    \/ GetThrows(branch)
    \/ ~IsArray(Get(branch, W("nodes")))
    \/ \E n \in 1..Len(Get(branch, W("nodes")).v) :
           NodeUnreadable(Get(branch, W("nodes")).v[n])
Unreadable(doc) ==
    \/ GetThrows(doc)
    \/ GetThrows(Get(doc, W("star")))
    \/ ~IsArray(Get(doc, W("branches")))
    \/ \E b \in 1..Len(Get(doc, W("branches")).v) :
           BranchUnreadable(Get(doc, W("branches")).v[b])

\* `${branch.name}.${node.label}`
HookTarget(branch, node) ==
    TemplateText(Get(branch, W("name"))) \o <<".">>
    \o TemplateText(Get(node, W("label")))

\* the hooks of a node, which only garage-mcp mode looks at
HookEntries(branch, node, m) ==
    (IF m = "garage-mcp" /\ Truthy(Get(node, W("orchestrator")))
     THEN W("orchestrator") :>
            Str(<<"call_orchestrator(">> \o HookTarget(branch, node) \o <<")">>)
     ELSE <<>>)
    @@ (IF m = "garage-mcp" /\ Truthy(Get(node, W("sub_agent")))
        THEN W("sub_agent") :>
               Str(<<"call_sub_agent(">> \o HookTarget(branch, node) \o <<")">>)
        ELSE <<>>)

\* const entry = {branch, node, train_doc} with the hooks; a branch or node
\* that is undefined is a missing key to every reader
checklistEntry(branch, node, m) ==
    Obj(HookEntries(branch, node, m)
        @@ (IF Get(branch, W("name")) = Undefined THEN <<>>
            ELSE W("branch") :> Get(branch, W("name")))
        @@ (IF Get(node, W("label")) = Undefined THEN <<>>
            ELSE W("node") :> Get(node, W("label")))
        @@ W("train_doc") :>
             OrElse(Get(Get(node, W("ORBT")), W("train")), S("-")))

\* a checklist of the nodes of the first branch only
checklistOfFirstBranch(doc, m) ==
    LET branch == Get(doc, W("branches")).v[1]
    IN [n \in 1..Len(Get(branch, W("nodes")).v) |->
          checklistEntry(branch, Get(branch, W("nodes")).v[n], m)]

\* the checklist: branch.nodes.forEach inside ctbBlueprint.branches.forEach
checklistOf(doc, m) ==
    LET branches == Get(doc, W("branches")).v
    IN Flat([b \in 1..Len(branches) |->
               [n \in 1..Len(Get(branches[b], W("nodes")).v) |->
                  checklistEntry(branches[b],
                                 Get(branches[b], W("nodes")).v[n], m)]], 1)

\* the lines renderCTBDiagram draws for a node
nodeLines(node, m) ==
    <<<<"node: ">> \o TemplateText(Get(node, W("label"))),
      <<"Input: ">> \o TemplateText(Get(Get(node, W("IMO")), W("input"))),
      <<"Middle: ">> \o TemplateText(Get(Get(node, W("IMO")), W("middle"))),
      <<"Output: ">> \o TemplateText(Get(Get(node, W("IMO")), W("output"))),
      <<"Operate: ">> \o TemplateText(Get(Get(node, W("ORBT")), W("operate"))),
      <<"Repair: ">> \o TemplateText(Get(Get(node, W("ORBT")), W("repair"))),
      <<"Build: ">> \o TemplateText(Get(Get(node, W("ORBT")), W("build"))),
      <<"Train: ">> \o TemplateText(Get(Get(node, W("ORBT")), W("train")))>>
    \o (IF m = "garage-mcp" /\ Truthy(Get(node, W("orchestrator")))
        THEN <<<<"Orchestrator: ">> \o TemplateText(Get(node, W("orchestrator")))>>
        ELSE <<>>)
    \o (IF m = "garage-mcp" /\ Truthy(Get(node, W("sub_agent")))
        THEN <<<<"Sub-agent: ">> \o TemplateText(Get(node, W("sub_agent")))>>
        ELSE <<>>)

\* the lines renderCTBDiagram draws for a branch
branchLines(branch, m) ==
    <<<<"branch: ">> \o TemplateText(Get(branch, W("name")))>>
    \o Flat([n \in 1..Len(Get(branch, W("nodes")).v) |->
               nodeLines(Get(branch, W("nodes")).v[n], m)
               \o (IF n < Len(Get(branch, W("nodes")).v) THEN <<<<>>>> ELSE <<>>)],
            1)

\* renderCTBDiagram(ctbBlueprint, mode): the lines between the header of the
\* tree and its trunk
renderCTBDiagram(doc, m) ==
    <<<<"star: ">> \o TemplateText(Get(Get(doc, W("star")), W("name")))>>
    \o Flat([b \in 1..Len(Get(doc, W("branches")).v) |->
               branchLines(Get(doc, W("branches")).v[b], m)], 1)
    \o <<<<"[TRUNK]">>>>

\* renderSchemaError(errors): one line per error
renderSchemaError(errors) ==
    <<<<"CTB Schema Validation Failed">>>>
    \o [i \in 1..Len(errors) |-> <<errors[i].kind>> \o errors[i].arg]

RECURSIVE countInBranch(_)
\* countSubBranches: what countInBranch adds to count for one branch, or -1
\* when it raises a TypeError
countInBranch(branch) ==
    IF GetThrows(branch) THEN -1
    ELSE LET subs == Get(branch, W("sub_branches"))
         IN IF ~Truthy(subs) THEN 0
            ELSE IF ~IsArray(subs) THEN -1
            ELSE LET inner == [i \in 1..Len(subs.v) |-> countInBranch(subs.v[i])]
                 IN IF \E i \in 1..Len(inner) : inner[i] < 0 THEN -1
                    ELSE Len(subs.v) + SumOf(inner, 1)

\* countSubBranches(ctbBlueprint) of a blueprint whose branches are an array
countSubBranches(doc) ==
    LET counts == [b \in 1..Len(Get(doc, W("branches")).v) |->
                      countInBranch(Get(doc, W("branches")).v[b])]
    IN IF \E b \in 1..Len(counts) : counts[b] < 0 THEN -1
       ELSE SumOf(counts, 1)

\* branch.nodes?.length || 0
nodesLength(branch) ==
    LET n == OptGet(Get(branch, W("nodes")), W("length"))
    IN IF n.t = "num" THEN n.v ELSE 0

\* the result of a call that raised
RenderThrown ==
    [called |-> TRUE, thrown |-> TRUE, diagram |-> <<>>, checklist |-> <<>>,
     summary |-> [branches |-> 0, nodes |-> 0, sub_branches |-> 0,
                  errors |-> <<>>]]

\* the second half of renderCTB, after a validation without errors
renderValid(doc, m) ==
    IF Unreadable(doc) \/ countSubBranches(doc) < 0 THEN RenderThrown
    ELSE [called |-> TRUE, thrown |-> FALSE,
          diagram |-> renderCTBDiagram(doc, m),
          checklist |-> checklistOf(doc, m),
          summary |->
            [branches |-> Len(Get(doc, W("branches")).v),
             nodes |-> SumOf([b \in 1..Len(Get(doc, W("branches")).v) |->
                                nodesLength(Get(doc, W("branches")).v[b])], 1),
             sub_branches |-> countSubBranches(doc),
             errors |-> <<>>]]

\* what renderCTB returns on the errors of validateSchema
renderOn(doc, m, errors) ==
    IF Len(errors) > 0
    THEN [called |-> TRUE, thrown |-> FALSE,
          diagram |-> renderSchemaError(errors), checklist |-> <<>>,
          summary |-> [branches |-> 0, nodes |-> 0, sub_branches |-> 0,
                       errors |-> errors]]
    ELSE renderValid(doc, m)

\* renderCTB(ctbBlueprint, mode)
renderCTB(doc, m) == renderOn(doc, m, validateSchema(doc, RenderKeys, m))

----------------------------------------------------------------------------
(* Inputs of generateCTBFromIMO and of renderCTB *)

\* an IMO blueprint of which every field the conversion reads is filled
GoodIMO ==
    Obj(W("project_slug") :> S("x")
        @@ W("altitudes") :> GoodAltitudes(S("x"), Words))

\* what a defect puts in the place of a value of an IMO blueprint: the
\* empty values, a string where a list is read, a number
IMODefects == Defects \cup {S("x"), Num(5)}

\* the good blueprint, each single defect of it, one with four steps, one
\* whose agent roles are all empty, and roots that hold no altitudes
IMOBlueprints ==
    {GoodIMO}
    \cup {Put(GoodIMO, p, d) : p \in Pointers(GoodIMO), d \in IMODefects}
    \cup {Put(GoodIMO, <<KeyStep(W("altitudes")), KeyStep(W("10000")),
                         KeyStep(W("steps"))>>,
              Arr(<<S("a"), S("b"), S("c"), S("d")>>)),
          Put(GoodIMO, <<KeyStep(W("altitudes")), KeyStep(W("5000")),
                         KeyStep(W("agent_roles"))>>,
              AllOf(<<"claude", "project_gpt", "whimsical_gpt", "sidecar",
                      "heir">>, Str(<<>>))),
          Null, EmptyObj, S("x")}

\* the names of the two hooks
HookNames == {W("orchestrator"), W("sub_agent")}

\* documents to put a hook into: good ones, one with nodes in a branch
\* below a branch, one holding a list inside a list, and one whose key
\* hasOwnProperty hides the method of that name
HookHosts ==
    {GoodDoc(1, 1), GoodDoc(2, 2),
     Put(GoodDoc(1, 1), <<KeyStep(W("branches")), IdxStep(1),
                          KeyStep(W("sub_branches"))>>, Arr(<<GoodBranch(1)>>)),
     Put(GoodDoc(1, 1), <<KeyStep(W("branches")), IdxStep(1),
                          KeyStep(W("notes"))>>,
         Arr(<<Arr(<<EmptyObj, Arr(<<EmptyObj>>)>>)>>)),
     Put(GoodDoc(1, 1), <<KeyStep(W("star")), KeyStep(W("hasOwnProperty"))>>,
         Num(1))}

\* the pointers to the objects inside x, x itself included
ObjectPointers(x) ==
    {p \in Pointers(x) \cup {<<>>} : ValueAtPointer(x, p).t = "obj"}

\* a host with a hook put into one of its objects, at any depth
HookedDocs ==
    UNION {{Put(h, p \o <<KeyStep(f)>>, v) :
               p \in ObjectPointers(h), f \in HookNames,
               v \in {S("x"), Null, Num(0)}} : h \in HookHosts}

\* the documents handed to renderCTB directly
RenderDocs == CTBDocs \cup HookedDocs

----------------------------------------------------------------------------
(* Specification of the tree builder: generateCTBFromIMO converts a parsed *)
(* IMO blueprint and renders the tree; renderCTB is also called on a      *)
(* document of the caller                                                 *)

InitRender ==
    /\ mode \in {"normal", "garage-mcp"}
    /\ \/ imoBlueprint \in IMOBlueprints /\ ctbBlueprint = Null
       \/ imoBlueprint = Undefined /\ ctbBlueprint \in RenderDocs
    /\ conversion = NotConverted
    /\ renderResult = NotRendered
    /\ requiredKeys = <<>>
    /\ schemaErrors = NotValidated
    /\ PathIdle
    /\ ScoreIdle
    /\ ValidateIdle
    /\ ProcessIdle
    /\ PanelIdle
    /\ ImplementIdle

\* const ctbBlueprint = this.convertIMOToCTB(imoBlueprint, mode)
ConvertIMOToCTB ==
    /\ imoBlueprint # Undefined
    /\ ~conversion.called
    /\ conversion' =
          [called |-> TRUE, thrown |-> convertIMOToCTB(imoBlueprint, mode).thrown]
    /\ ctbBlueprint' = convertIMOToCTB(imoBlueprint, mode).val
    /\ UNCHANGED <<imoBlueprint, renderResult, requiredKeys, mode, schemaErrors,
                   pathVars, scoreVars, validateVars, processVars, panelVars,
                   implementVars>>

\* this.renderCTB(ctbBlueprint, mode), on the converted blueprint or on the
\* document of the caller
RenderCTB ==
    /\ ~renderResult.called
    /\ imoBlueprint # Undefined => conversion.called /\ ~conversion.thrown
    /\ renderResult' = renderCTB(ctbBlueprint, mode)
    /\ UNCHANGED <<imoBlueprint, conversion, schemaVars, pathVars, scoreVars,
                   validateVars, processVars, panelVars, implementVars>>

NextRender == ConvertIMOToCTB \/ RenderCTB

SpecRender == InitRender /\ [][NextRender]_vars

----------------------------------------------------------------------------
(* claims about the tree builder *)

\* some key of the value, at some depth, is named orchestrator or sub_agent
HasHook(x) == \E p \in Pointers(x) : p[Len(p)].key \in HookNames

\* a conversion in normal mode has produced a tree
ConvertedNormal == conversion.called /\ ~conversion.thrown /\ mode = "normal"

\* the labels of the nodes of a tree
NodeLabels(doc) ==
    {Get(ValueAtPointer(doc, p), W("label")) :
        p \in {q \in Pointers(doc) :
                 Len(q) = 4 /\ q[3].key = W("nodes") /\ q[4].idx > 0}}

\* C23: the hooks exist in garage-mcp mode only.  A tree that
\* convertIMOToCTB builds in mode "normal" holds no key orchestrator and no
\* key sub_agent, on a node or anywhere else; and for a blueprint that holds
\* one of the two keys at any depth, validateSchema in mode "normal" returns
\* at least one error, whatever the required keys, so that renderCTB returns
\* an empty checklist.
C23_HooksOnlyInGarageMode ==
    /\ ConvertedNormal => ~HasHook(ctbBlueprint)
    /\ (renderResult.called /\ mode = "normal" /\ HasHook(ctbBlueprint)) =>
          /\ validateSchema(ctbBlueprint, <<>>, "normal") # <<>>
          /\ validateSchema(ctbBlueprint, RenderKeys, "normal") # <<>>
          /\ ~renderResult.thrown
          /\ renderResult.summary.errors # <<>>
          /\ renderResult.checklist = <<>>

\* C23 witness: a document that is right in everything but a sub_agent key
\* four levels down, inside the ORBT part of a node, was rendered in mode
\* "normal": the one error is the one about sub_agent, and no checklist
C23_Witness ==
    /\ renderResult.called /\ mode = "normal"
    /\ \E p \in Pointers(ctbBlueprint) :
          /\ Len(p) = 6 /\ p[5].key = W("ORBT") /\ p[6].key = W("sub_agent")
    /\ renderResult.summary.errors = <<NotAllowedErr(W("sub_agent"))>>
    /\ renderResult.checklist = <<>>

\* a blueprint with agent roles was converted in mode "normal": the Agent
\* Coordination node is in the tree, without hooks
ConvertedAgentsNormal ==
    /\ ConvertedNormal
    /\ S("Agent Coordination") \in NodeLabels(ctbBlueprint)
    /\ ~HasHook(ctbBlueprint)

\* the same conversion in mode "garage-mcp": the node has both hooks
ConvertedAgentsGarage ==
    /\ conversion.called /\ ~conversion.thrown /\ mode = "garage-mcp"
    /\ S("Agent Coordination") \in NodeLabels(ctbBlueprint)
    /\ HasHook(ctbBlueprint)

\* the pointers to the nodes of the branches of a document
NodePointers(doc) ==
    {p \in Pointers(doc) :
        /\ Len(p) = 4
        /\ p[1].key = W("branches") /\ p[2].idx > 0
        /\ p[3].key = W("nodes") /\ p[4].idx > 0}

\* a checklist entry is the entry of the node a pointer leads to
EntryOf(entry, doc, p) ==
    /\ Get(entry, W("branch"))
          = Get(ValueAtPointer(doc, SubSeq(p, 1, 2)), W("name"))
    /\ Get(entry, W("node")) = Get(ValueAtPointer(doc, p), W("label"))

\* the shape renderCTB returns on a non-empty error list
ErrorShape(r, errors) ==
    /\ r.checklist = <<>>
    /\ r.summary = [branches |-> 0, nodes |-> 0, sub_branches |-> 0,
                    errors |-> errors]

\* the shape renderCTB returns on a document without errors
TreeShape(r, doc) ==
    /\ r.summary.errors = <<>>
    /\ r.summary.branches = Len(ListOf(doc, W("branches")))
    /\ Len(r.checklist) = Cardinality(NodePointers(doc))
    /\ Len(r.checklist) = r.summary.nodes
    /\ \A i \in 1..Len(r.checklist) :
           \E p \in NodePointers(doc) : EntryOf(r.checklist[i], doc, p)
    /\ \A p \in NodePointers(doc) :
           \E i \in 1..Len(r.checklist) : EntryOf(r.checklist[i], doc, p)

\* C24: renderCTB returns one of two shapes and raises nothing.  When
\* validateSchema reports an error, the checklist is empty, the three
\* counts of the summary are 0 and summary.errors is that non-empty list;
\* otherwise summary.errors is empty, summary.branches is the number of
\* branches, and the checklist has one entry for each node of the
\* branches, so that its length is summary.nodes.
C24_TwoShapes ==
    renderResult.called =>
        /\ ~renderResult.thrown
        /\ IF validateSchema(ctbBlueprint, RenderKeys, mode) # <<>>
           THEN ErrorShape(renderResult,
                           validateSchema(ctbBlueprint, RenderKeys, mode))
           ELSE TreeShape(renderResult, ctbBlueprint)

\* C24 witness: a document of two branches of two nodes each was rendered
\* without errors: two branches, four nodes, four checklist entries
C24_Witness ==
    /\ renderResult.called
    /\ renderResult.summary.errors = <<>>
    /\ renderResult.summary.branches = 2
    /\ renderResult.summary.nodes = 4
    /\ Len(renderResult.checklist) = 4

\* a document with a branch below a branch was rendered without errors:
\* the nodes of the lower branch are in neither count
RenderedSubBranch ==
    /\ renderResult.called
    /\ renderResult.summary.errors = <<>>
    /\ renderResult.summary.sub_branches = 1
    /\ renderResult.summary.nodes = 1
    /\ Len(renderResult.checklist) = 1

\* a converted blueprint was rendered without errors
RenderedConverted ==
    /\ renderResult.called /\ conversion.called
    /\ renderResult.summary.errors = <<>>
    /\ renderResult.summary.branches = 4

\* a converted blueprint was rendered with errors
RenderedConvertedErrors ==
    /\ renderResult.called /\ conversion.called
    /\ renderResult.summary.errors # <<>>

----------------------------------------------------------------------------
(* IMOCreatorIntegration of lib/ctbSchema.ts: the calls to the services *)

\* z.any()
ZAny == Z("any")

\* const SSOTResponseSchema
SSOTResponseSchema ==
    ZObject(<<
        <<W("id"), ZString>>,
        <<W("stamped_at"), ZString>>,
        <<W("blueprint"), ZAny>>,
        <<W("heir_validation"),
          ZOptional(ZObject(<< <<W("valid"), ZBoolean>>,
                               <<W("issues"), ZOptional(ZArray(ZString))>> >>))>> >>)

\* const SubagentRegistrySchema
SubagentRegistrySchema ==
    ZObject(<<
        <<W("subagents"),
          ZArray(ZObject(<< <<W("id"), ZString>>,
                            <<W("name"), ZString>>,
                            <<W("capabilities"), ZArray(ZString)>>,
                            <<W("branch"), ZOptional(ZString)>> >>))>> >>)

\* const HEIRValidationSchema
HEIRValidationSchema ==
    ZObject(<<
        <<W("valid"), ZBoolean>>,
        <<W("issues"), ZArray(ZString)>>,
        <<W("heir_score"), ZOptional(ZNumber)>>,
        <<W("recommendations"), ZOptional(ZArray(ZString))>> >>)

\* the schema an object schema has for a key it names
FieldSchema(s, k) ==
    (CHOOSE f \in {s.fields[i] : i \in 1..Len(s.fields)} : f[1] = k)[2]

RECURSIVE ZodOutput(_, _)
\* what schema.parse(x) returns for a value the schema accepts: an object
\* schema keeps the keys it names and strips the others
ZodOutput(s, x) ==
    IF s.k = "object" /\ x.t = "obj"
    THEN Obj([k \in {s.fields[i][1] : i \in 1..Len(s.fields)} \cap DOMAIN x.v
                |-> ZodOutput(FieldSchema(s, k), x.v[k])])
    ELSE IF s.k = "array" /\ x.t = "arr"
    THEN Arr([i \in 1..Len(x.v) |-> ZodOutput(s.of[1], x.v[i])])
    ELSE x

\* how a fetch ends: the promise rejects (network error), or a response
\* comes with its ok flag and its body; a body that is no JSON makes
\* response.json() reject
Rejected == [rejected |-> TRUE, ok |-> FALSE, body |-> Undefined]
Response(ok, body) == [rejected |-> FALSE, ok |-> ok, body |-> body]
NotJSON == [t |-> "notjson", v |-> <<>>]

\* an error object: what raised it and in which call
ErrorOf(kind, call) == [kind |-> kind, call |-> call]
NoError == ErrorOf("none", "none")

\* how a call ends
Resolved(val) == [thrown |-> FALSE, val |-> val, error |-> NoError]
Raised(error) == [thrown |-> TRUE, val |-> Undefined, error |-> error]

\* the body of the try block of a call: fetch, the check of response.ok,
\* response.json() and schema.parse
tryFetch(resp, schema, call) ==
    IF resp.rejected THEN Raised(ErrorOf("fetch", call))
    ELSE IF ~resp.ok THEN Raised(ErrorOf("status", call))
    ELSE IF resp.body = NotJSON THEN Raised(ErrorOf("json", call))
    ELSE IF ZodIssues(schema, resp.body, <<>>) # <<>>
    THEN Raised(ErrorOf("zod", call))
    ELSE Resolved(ZodOutput(schema, resp.body))

\* saveBlueprint(blueprint, metadata): the catch logs and rethrows
saveBlueprint(resp) == tryFetch(resp, SSOTResponseSchema, "saveBlueprint")

\* one entry of the fallback registry
Subagent(id, name, capabilities, branch) ==
    Obj(W("id") :> S(id) @@ W("name") :> S(name)
        @@ W("capabilities") :>
             Arr([i \in 1..Len(capabilities) |-> S(capabilities[i])])
        @@ W("branch") :> S(branch))

\* the registry the catch of getSubagentRegistry returns
FallbackRegistry ==
    Obj(W("subagents") :> Arr(<<
        Subagent("garage-mcp", "Garage-MCP Orchestrator",
                 <<"orchestration", "validation", "coordination">>,
                 "feat/garage-mcp-integration"),
        Subagent("repo-sight", "Repo Sight Agent",
                 <<"code_analysis", "repository_scanning">>,
                 "feat/repo-sight-integration-clean"),
        Subagent("claude-code", "Claude Code Agent",
                 <<"code_generation", "documentation", "refactoring">>,
                 "feat/claude-code-agents-library"),
        Subagent("bmad-tracer", "BMAD Telemetry Agent",
                 <<"telemetry", "monitoring", "tracing">>,
                 "feature/bmad-full")>>))

\* a catch that rethrows
orRethrow(tried, fallback) == tried

\* what a catch that returns a fallback makes of the try block
orFallback(tried, fallback) ==
    IF tried.thrown THEN Resolved(fallback) ELSE tried

\* getSubagentRegistry()
getSubagentRegistry(resp) ==
    orFallback(tryFetch(resp, SubagentRegistrySchema, "getSubagentRegistry"),
               FallbackRegistry)

\* the validation the catch of validateWithHEIR returns
FallbackValidation ==
    Obj(W("valid") :> Bool(TRUE) @@ W("issues") :> Arr(<<>>)
        @@ W("heir_score") :> Num(85)
        @@ W("recommendations") :>
             Arr(<<S("Consider adding more detailed failure modes")>>))

\* validateWithHEIR(blueprint)
validateWithHEIR(resp) ==
    orFallback(tryFetch(resp, HEIRValidationSchema, "validateWithHEIR"),
               FallbackValidation)

\* enhanceWithLLM(blueprint, prompt): the catch logs and rethrows
enhanceWithLLM(resp) == tryFetch(resp, ZAny, "enhanceWithLLM")

\* logEvent(event): the catch warns and the call returns
logEvent(resp) ==
    orFallback(IF resp.rejected THEN Raised(ErrorOf("fetch", "logEvent"))
               ELSE Resolved(Undefined),
               Undefined)

\* mapping[agent.id] = {name, capabilities, branch, endpoint}; a branch
\* that is undefined is a missing key to every reader
mappingEntry(agent) ==
    Obj((IF Get(agent, W("branch")) = Undefined THEN <<>>
         ELSE W("branch") :> Get(agent, W("branch")))
        @@ W("name") :> Get(agent, W("name"))
        @@ W("capabilities") :> Get(agent, W("capabilities"))
        @@ W("endpoint") :>
             Str(<<"baseUrl", "/orchestrator/">> \o Get(agent, W("id")).v))

RECURSIVE mappingReduce(_, _, _)
\* registry.subagents.reduce(...): a later agent of the same id wins
mappingReduce(agents, i, mapping) ==
    IF i > Len(agents) THEN Obj(mapping)
    ELSE mappingReduce(agents, i + 1,
            (Get(agents[i], W("id")).v :> mappingEntry(agents[i])) @@ mapping)

\* getOrchestratorMapping()
getOrchestratorMapping(resp) ==
    Resolved(mappingReduce(
        Get(getSubagentRegistry(resp).val, W("subagents")).v, 1, <<>>))

----------------------------------------------------------------------------
(* IMOCreatorIntegration.processBlueprint: the pipeline, one await at a  *)
(* time.  pc names the call whose completion the function awaits.        *)

\* a request sent with fetch: the service, and for the sidecar the action
\* and the processing_steps of the event, for the SSOT the heir_validation
\* of the metadata
Request(to, action, steps, heir) ==
    [to |-> to, action |-> action, steps |-> steps, heir_validation |-> heir]

\* the request the call of a stage sends
requestOf(pc, st) ==
    CASE pc = "log_started" ->
           Request("sidecar", "blueprint_processing_started", <<>>, Undefined)
      [] pc = "mapping" -> Request("registry", "", <<>>, Undefined)
      [] pc = "heir" -> Request("heir", "", <<>>, Undefined)
      [] pc = "llm" -> Request("llm", "", <<>>, Undefined)
      [] pc = "save" -> Request("ssot", "", <<>>, st.heir_validation)
      [] pc = "log_completed" ->
           Request("sidecar", "blueprint_processing_completed", st.steps,
                   Undefined)
      [] pc = "log_failed" ->
           Request("sidecar", "blueprint_processing_failed", st.steps,
                   Undefined)

\* the function goes on to a stage: it sends the request of the stage and
\* awaits it, or it ends
enter(st, pc) ==
    IF pc \in {"returned", "thrown"} THEN [st EXCEPT !.pc = pc]
    ELSE [st EXCEPT !.pc = pc, !.fetches = @ \o <<requestOf(pc, st)>>]

\* the stages the options select, in the order of the try block
afterSave(opts) == IF opts.log_telemetry THEN "log_completed" ELSE "returned"
afterLLM(opts) == IF opts.save_to_ssot THEN "save" ELSE afterSave(opts)
afterHEIR(opts) == IF opts.enhance_with_llm THEN "llm" ELSE afterLLM(opts)
afterMapping(opts) == IF opts.validate_heir THEN "heir" ELSE afterHEIR(opts)

\* an error reaches the catch of processBlueprint
catch(st, error, opts) ==
    enter([st EXCEPT !.error = error],
          IF opts.log_telemetry THEN "log_failed" ELSE "thrown")

\* a push at the front of the list
pushStepFirst(st, step) == [st EXCEPT !.steps = <<step>> \o @]

\* results.processing_steps.push(step)
pushStep(st, step) == [st EXCEPT !.steps = @ \o <<step>>]

\* the call has just been made: results = {original_blueprint,
\* processing_steps: []}
NewProcess ==
    [pc |-> "idle", steps |-> <<>>, orchestrator_mapping |-> Undefined,
     heir_validation |-> Undefined, llm_enhancement |-> Undefined,
     ssot_response |-> Undefined, error |-> NoError, fetches |-> <<>>]

\* the response of the sidecar to the event in flight
sidecarResponse(st, sv) ==
    sv.sidecar[Cardinality({i \in 1..Len(st.fetches) :
                               st.fetches[i].to = "sidecar"})]

\* processBlueprint up to its first await; blueprint.meta?.spec_version is
\* read for the first event only
processStart(st, bp, opts) ==
    IF ~opts.log_telemetry THEN enter(st, "mapping")
    ELSE IF GetThrows(bp) THEN catch(st, ErrorOf("TypeError", "processBlueprint"), opts)
    ELSE enter(st, "log_started")

\* await this.logEvent({action: 'blueprint_processing_started', ...})
logStarted(st, opts, sv) ==
    IF logEvent(sidecarResponse(st, sv)).thrown
    THEN catch(st, logEvent(sidecarResponse(st, sv)).error, opts)
    ELSE enter(st, "mapping")

\* results.orchestrator_mapping = await this.getOrchestratorMapping()
mappingRetrieved(st, opts, sv) ==
    IF getOrchestratorMapping(sv.registry).thrown
    THEN catch(st, getOrchestratorMapping(sv.registry).error, opts)
    ELSE enter(pushStep([st EXCEPT !.orchestrator_mapping =
                            getOrchestratorMapping(sv.registry).val],
                        "orchestrator_mapping_retrieved"),
               afterMapping(opts))

\* results.heir_validation = await this.validateWithHEIR(blueprint)
heirValidated(st, opts, sv) ==
    IF validateWithHEIR(sv.heir).thrown
    THEN catch(st, validateWithHEIR(sv.heir).error, opts)
    ELSE enter(pushStep([st EXCEPT !.heir_validation =
                            validateWithHEIR(sv.heir).val],
                        "heir_validation_completed"),
               afterHEIR(opts))

\* results.llm_enhancement = await this.enhanceWithLLM(...)
llmEnhanced(st, opts, sv) ==
    IF enhanceWithLLM(sv.llm).thrown
    THEN catch(st, enhanceWithLLM(sv.llm).error, opts)
    ELSE enter(pushStep([st EXCEPT !.llm_enhancement =
                            enhanceWithLLM(sv.llm).val],
                        "llm_enhancement_completed"),
               afterLLM(opts))

\* results.ssot_response = await this.saveBlueprint(blueprint, {...})
ssotSaved(st, opts, sv) ==
    IF saveBlueprint(sv.ssot).thrown
    THEN catch(st, saveBlueprint(sv.ssot).error, opts)
    ELSE enter(pushStep([st EXCEPT !.ssot_response = saveBlueprint(sv.ssot).val],
                        "ssot_save_completed"),
               afterSave(opts))

\* await this.logEvent({action: 'blueprint_processing_completed', ...});
\* return results
logCompleted(st, opts, sv) ==
    IF logEvent(sidecarResponse(st, sv)).thrown
    THEN catch(st, logEvent(sidecarResponse(st, sv)).error, opts)
    ELSE enter(st, "returned")

\* the catch: await this.logEvent({action: 'blueprint_processing_failed',
\* ...}); throw error
logFailed(st, sv) ==
    IF logEvent(sidecarResponse(st, sv)).thrown
    THEN enter([st EXCEPT !.error = logEvent(sidecarResponse(st, sv)).error],
               "thrown")
    ELSE enter(st, "thrown")

\* one step of the function: up to the next await, or to its end
processStep(st, bp, opts, sv) ==
    CASE st.pc = "idle" -> processStart(st, bp, opts)
      [] st.pc = "log_started" -> logStarted(st, opts, sv)
      [] st.pc = "mapping" -> mappingRetrieved(st, opts, sv)
      [] st.pc = "heir" -> heirValidated(st, opts, sv)
      [] st.pc = "llm" -> llmEnhanced(st, opts, sv)
      [] st.pc = "save" -> ssotSaved(st, opts, sv)
      [] st.pc = "log_completed" -> logCompleted(st, opts, sv)
      [] st.pc = "log_failed" -> logFailed(st, sv)
      [] OTHER -> st

RECURSIVE processBlueprint(_, _, _, _)
\* processBlueprint(blueprint, options) against given services, from a
\* state of the call to its end
processBlueprint(st, bp, opts, sv) ==
    IF st.pc \in {"returned", "thrown"} THEN st
    ELSE processBlueprint(processStep(st, bp, opts, sv), bp, opts, sv)

----------------------------------------------------------------------------
(* Inputs of processBlueprint: blueprints, options, and how the services *)
(* answer                                                                *)

ProcessBlueprints ==
    {Obj(W("meta") :> Obj(W("spec_version") :> S("1.0"))), EmptyObj, Null}

\* the options after the defaults are applied
ProcessOptions ==
    [validate_heir : BOOLEAN, enhance_with_llm : BOOLEAN,
     save_to_ssot : BOOLEAN, log_telemetry : BOOLEAN]

\* a registry of one agent, with a key the schema does not name
OneAgentRegistry ==
    Obj(W("subagents") :>
          Arr(<<Obj(W("id") :> S("a") @@ W("name") :> S("x")
                    @@ W("capabilities") :> Words)>>)
        @@ W("cached") :> Bool(TRUE))

RegistryResponses ==
    {Response(TRUE, OneAgentRegistry), Rejected, Response(FALSE, Null),
     Response(TRUE, Obj(W("subagents") :> S("x")))}

HEIRResponses ==
    {Response(TRUE, Obj(W("valid") :> Bool(TRUE) @@ W("issues") :> Arr(<<>>))),
     Response(TRUE, Obj(W("valid") :> Bool(FALSE) @@ W("issues") :> Words)),
     Rejected, Response(FALSE, Null),
     Response(TRUE, Obj(W("valid") :> S("yes")))}

LLMResponses ==
    {Response(TRUE, Obj(W("content") :> S("x"))), Rejected,
     Response(FALSE, Null)}

SSOTResponses ==
    {Response(TRUE, Obj(W("id") :> S("x") @@ W("stamped_at") :> S("x"))),
     Response(FALSE, Null), Response(TRUE, Obj(W("id") :> Num(1)))}

SidecarResponses == {Response(TRUE, EmptyObj), Rejected}

\* every combination of these answers, and some in which a body is no JSON
ServiceCases ==
    [registry : RegistryResponses, heir : HEIRResponses, llm : LLMResponses,
     ssot : SSOTResponses, sidecar : [1..2 -> SidecarResponses]]
    \cup [registry : {Response(TRUE, NotJSON), Response(TRUE, OneAgentRegistry)},
          heir : {Response(TRUE, NotJSON)},
          llm : {Response(TRUE, NotJSON)},
          ssot : {Response(TRUE, NotJSON), Rejected},
          sidecar : {<<Response(FALSE, NotJSON), Response(FALSE, NotJSON)>>}]

----------------------------------------------------------------------------
(* Specification of the pipeline: one call of processBlueprint *)

InitProcess ==
    /\ processInput \in ProcessBlueprints
    /\ options \in ProcessOptions
    /\ services \in ServiceCases
    /\ process = NewProcess
    /\ PathIdle
    /\ SchemaIdle
    /\ ScoreIdle
    /\ ValidateIdle
    /\ RenderIdle
    /\ PanelIdle
    /\ ImplementIdle

\* the step the function takes from the await of stage `from`
Advance(from) ==
    /\ process.pc = from
    /\ process' = processStep(process, processInput, options, services)
    /\ UNCHANGED <<processInput, options, services, pathVars, schemaVars,
                   scoreVars, validateVars, renderVars, panelVars,
                   implementVars>>

\* imoCreator.processBlueprint(blueprint, options) is called
ProcessBlueprint == Advance("idle")
\* the first logEvent settles
LogStarted == Advance("log_started")
\* getOrchestratorMapping settles
GetOrchestratorMapping == Advance("mapping")
\* validateWithHEIR settles
ValidateWithHEIR == Advance("heir")
\* enhanceWithLLM settles
EnhanceWithLLM == Advance("llm")
\* saveBlueprint settles
SaveBlueprint == Advance("save")
\* the last logEvent of the try block settles
LogCompleted == Advance("log_completed")
\* the logEvent of the catch settles
LogFailed == Advance("log_failed")

NextProcess ==
    \/ ProcessBlueprint
    \/ LogStarted
    \/ GetOrchestratorMapping
    \/ ValidateWithHEIR
    \/ EnhanceWithLLM
    \/ SaveBlueprint
    \/ LogCompleted
    \/ LogFailed

SpecProcess == InitProcess /\ [][NextProcess]_vars

----------------------------------------------------------------------------
(* claims about the pipeline *)

\* the fixed order of the step names
StepOrder ==
    <<"orchestrator_mapping_retrieved", "heir_validation_completed",
      "llm_enhancement_completed", "ssot_save_completed">>

\* the place of a step name in the fixed order, 0 when it is none of them
PlaceOf(step) ==
    IF \E i \in 1..Len(StepOrder) : StepOrder[i] = step
    THEN CHOOSE i \in 1..Len(StepOrder) : StepOrder[i] = step
    ELSE 0

\* a list of step names is a subsequence of the fixed order
InStepOrder(steps) ==
    /\ \A i \in 1..Len(steps) : PlaceOf(steps[i]) > 0
    /\ \A i, j \in 1..Len(steps) : i < j => PlaceOf(steps[i]) < PlaceOf(steps[j])

Recorded(step) == \E i \in 1..Len(process.steps) : process.steps[i] = step

\* the call of a stage was made and has settled
Settled(stage, to) ==
    /\ \E i \in 1..Len(process.fetches) : process.fetches[i].to = to
    /\ process.pc # stage

\* the call of a stage has completed: it has settled without an error
MappingCompleted == Settled("mapping", "registry")
HEIRCompleted == Settled("heir", "heir")
LLMCompleted ==
    Settled("llm", "llm") /\ ~tryFetch(services.llm, ZAny, "").thrown
SSOTCompleted ==
    Settled("save", "ssot")
    /\ ~tryFetch(services.ssot, SSOTResponseSchema, "").thrown

\* the request that saves the blueprint is sent after the one to the HEIR
\* service, and carries the validation that call produced
SavedAfterHEIR ==
    \A i \in 1..Len(process.fetches) :
        (process.fetches[i].to = "ssot" /\ options.validate_heir) =>
            /\ \E j \in 1..(i - 1) : process.fetches[j].to = "heir"
            /\ process.heir_validation # Undefined
            /\ process.fetches[i].heir_validation = process.heir_validation

\* C25: the recorded processing_steps are at every moment a subsequence of
\* the order mapping, HEIR, LLM, SSOT; a step name is recorded only when
\* its call has completed; the step of an optional stage is recorded
\* exactly when its option is on and its call has completed; and the
\* request that saves the blueprint goes out only after the HEIR
\* validation, when that is enabled, has produced its result.
C25_StepsFollowThePipeline ==
    process.pc # "none" =>
        /\ InStepOrder(process.steps)
        /\ Recorded("orchestrator_mapping_retrieved") <=> MappingCompleted
        /\ Recorded("heir_validation_completed")
              <=> (options.validate_heir /\ HEIRCompleted)
        /\ Recorded("llm_enhancement_completed")
              <=> (options.enhance_with_llm /\ LLMCompleted)
        /\ Recorded("ssot_save_completed")
              <=> (options.save_to_ssot /\ SSOTCompleted)
        /\ SavedAfterHEIR

\* C25 witness: with every option on and every service answering, the call
\* has returned with the four steps recorded in the fixed order
C25_Witness ==
    /\ process.pc = "returned"
    /\ process.steps = StepOrder
    /\ options.validate_heir /\ options.enhance_with_llm
    /\ options.save_to_ssot /\ options.log_telemetry

\* what a caller of processBlueprint gets: the results, or the error
Outcome(st) ==
    IF st.pc = "thrown"
    THEN [thrown |-> TRUE, error |-> st.error, results |-> <<>>]
    ELSE [thrown |-> FALSE, error |-> NoError,
          results |-> <<st.steps, st.orchestrator_mapping, st.heir_validation,
                        st.llm_enhancement, st.ssot_response>>]

Finished == process.pc \in {"returned", "thrown"}

\* the same call with log_telemetry off, against the same services
WithoutTelemetry ==
    processBlueprint(NewProcess, processInput,
                     [options EXCEPT !.log_telemetry = FALSE], services)

\* no error of logEvent reaches processBlueprint
LogEventNeverRaises == process.pc # "none" => process.error.call # "logEvent"

\* the call ends as it ends with telemetry off
SameAsWithoutTelemetry ==
    Finished => Outcome(process) = Outcome(WithoutTelemetry)

\* a call that ends with an error, telemetry on, has sent as its last
\* request the event blueprint_processing_failed with the steps recorded
FailureIsLogged ==
    (process.pc = "thrown" /\ options.log_telemetry) =>
        /\ Len(process.fetches) > 0
        /\ process.fetches[Len(process.fetches)]
              = Request("sidecar", "blueprint_processing_failed",
                        process.steps, Undefined)
        /\ process.error \in {saveBlueprint(services.ssot).error,
                              enhanceWithLLM(services.llm).error,
                              ErrorOf("TypeError", "processBlueprint")}

\* C26 as claimed: logEvent never propagates an error; whatever the sidecar
\* answers, processBlueprint returns the same results or raises the same
\* error as with telemetry off; and when a step fails, the event
\* blueprint_processing_failed with the steps completed so far is sent
\* before the error of that step is rethrown.
C26_TelemetryNeverBreaksTheFlow ==
    /\ LogEventNeverRaises
    /\ SameAsWithoutTelemetry
    /\ FailureIsLogged

\* the same for the blueprints that are objects
TelemetryNeverBreaksObjects ==
    processInput # Null =>
        /\ LogEventNeverRaises
        /\ SameAsWithoutTelemetry
        /\ FailureIsLogged

\* a call that must fall back: the fetch rejects, the status is not OK, the
\* body is no JSON, or the schema rejects the body
Failing(resp, schema) ==
    \/ resp.rejected
    \/ ~resp.ok
    \/ resp.body = NotJSON
    \/ ZodIssues(schema, resp.body, <<>>) # <<>>

\* the registry call never fails, and falls back to the fixed registry
RegistryFallsBack ==
    /\ ~getSubagentRegistry(services.registry).thrown
    /\ Failing(services.registry, SubagentRegistrySchema) =>
          getSubagentRegistry(services.registry).val = FallbackRegistry
    /\ (MappingCompleted /\ Failing(services.registry, SubagentRegistrySchema)) =>
          DOMAIN process.orchestrator_mapping.v
             = {W("garage-mcp"), W("repo-sight"), W("claude-code"),
                W("bmad-tracer")}

\* the HEIR call never fails, and falls back to a validation that is valid
\* and has no issues
HEIRFallsBack ==
    /\ ~validateWithHEIR(services.heir).thrown
    /\ (options.validate_heir /\ HEIRCompleted
        /\ Failing(services.heir, HEIRValidationSchema)) =>
          /\ process.heir_validation = FallbackValidation
          /\ Get(process.heir_validation, W("valid")) = Bool(TRUE)
          /\ Get(process.heir_validation, W("issues")) = Arr(<<>>)

\* after a HEIR call that fell back the pipeline goes on: no error of the
\* two calls ends it, and the blueprint is sent to the SSOT with the
\* fallback validation once the stages before the save are through
SavedAfterFallback ==
    /\ process.error.call \notin {"validateWithHEIR", "getSubagentRegistry"}
    /\ (options.validate_heir /\ HEIRCompleted
        /\ Failing(services.heir, HEIRValidationSchema)
        /\ options.save_to_ssot
        /\ (options.enhance_with_llm => LLMCompleted)) =>
          \E i \in 1..Len(process.fetches) :
              process.fetches[i] = Request("ssot", "", <<>>, FallbackValidation)

\* C27: validateWithHEIR and getSubagentRegistry never fail.  On a network
\* error, a non-OK status or a body their schema rejects they return their
\* fixed fallback; the fallback of validateWithHEIR is valid with an empty
\* issue list, so processBlueprint goes on to save the blueprint when the
\* HEIR service cannot be reached.
C27_FallbacksKeepThePipelineGoing ==
    process.pc # "none" =>
        /\ RegistryFallsBack
        /\ HEIRFallsBack
        /\ SavedAfterFallback

\* C27 witness: the fetch to the HEIR service was rejected and so was the
\* one to the registry, and the call has returned with the fallback
\* validation, the fallback mapping and the blueprint saved
C27_Witness ==
    /\ process.pc = "returned"
    /\ services.heir = Rejected /\ services.registry = Rejected
    /\ process.heir_validation = FallbackValidation
    /\ Cardinality(DOMAIN process.orchestrator_mapping.v) = 4
    /\ Recorded("ssot_save_completed")

----------------------------------------------------------------------------
(* The engine panel of the console: RightPanel of components/LeftPanel.tsx *)

\* the keys of the emitted files, in the order JSON.stringify writes them
FileKeys ==
    <<W("altitude"), W("context"), W("goals"), W("constraints"),
      W("metadata"), W("generated_at"), W("version"), W("input"), W("type"),
      W("source"), W("middle"), W("stage"), W("status"), W("output"),
      W("count"), W("project_name"), W("files"),
      W("blueprint_engine_version")>>

\* JSON.stringify(x, null, 2), the white space left out
StringifyFile(x) == Str(Stringify(x, FileKeys))

\* the file 01_altitude.json
altitudeFile(intakeJson, now) ==
    Obj(W("altitude") :>
          Obj(W("context") :>
                OrElse(Get(intakeJson, W("context")),
                       S("Project context from blueprint"))
              @@ W("goals") :>
                OrElse(Get(intakeJson, W("goals")),
                       Arr(<<S("Primary objective"), S("Secondary objective")>>))
              @@ W("constraints") :>
                Arr(<<S("Time constraints"), S("Resource constraints")>>))
        @@ W("metadata") :>
          Obj(W("generated_at") :> Str(now) @@ W("version") :> S("1.0.0")))

\* the file 02_imo.json
imoFile(intakeJson) ==
    Obj(W("input") :>
          OrElse(Get(intakeJson, W("input")),
                 Arr(<<Obj(W("type") :> S("user_request")
                           @@ W("source") :> S("brainstorm_gpt"))>>))
        @@ W("middle") :>
          Arr(<<Obj(W("stage") :> S("validation") @@ W("status") :> S("complete")),
                Obj(W("stage") :> S("transformation")
                    @@ W("status") :> S("complete"))>>)
        @@ W("output") :>
          Arr(<<Obj(W("type") :> S("structured_files") @@ W("count") :> Num(3)),
                Obj(W("type") :> S("manifest") @@ W("status") :> S("generated"))>>))

\* the file manifest.json
manifestFile(name, now) ==
    Obj(W("project_name") :> Str(name)
        @@ W("version") :> S("v1.0.0")
        @@ W("generated_at") :> Str(now)
        @@ W("files") :>
          Arr(<<S("01_altitude.json"), S("02_imo.json"), S("manifest.json")>>)
        @@ W("status") :> S("emitted")
        @@ W("blueprint_engine_version") :> S("1.0"))

\* const fakeOutputs = {...}, for an intakeJson whose properties can be read
fakeOutputs(intakeJson, name, now) ==
    Obj(W("01_altitude.json") :> StringifyFile(altitudeFile(intakeJson, now))
        @@ W("02_imo.json") :> StringifyFile(imoFile(intakeJson))
        @@ W("manifest.json") :> StringifyFile(manifestFile(name, now)))

\* a call of validateBlueprint or emitBlueprint that awaits its delay, with
\* the intakeJson it parsed and the projectName of the render it was
\* clicked in
Operation(kind, intakeJson, name) ==
    [kind |-> kind, pc |-> "delay", intakeJson |-> intakeJson,
     projectName |-> name]

\* a query sent to the table blueprints
Upsert(name, intakeJson) ==
    [op |-> "upsert", project_name |-> name,
     payload |-> Obj(W("intake_json") :> intakeJson
                     @@ W("status") :> S("validated"))]
Update(name, files) ==
    [op |-> "update", project_name |-> name,
     payload |-> Obj(W("outputs") :> files @@ W("status") :> S("emitted"))]

\* how a query ends: { error: null }, { error: dbError }, or a rejection
QueryOutcomes == {"ok", "error", "rejected"}

\* the status set whatever the query answered
statusAfterAny(kind, outcome, before) ==
    IF kind = "validate" THEN "validated" ELSE "emitted"

\* the status once the query of a call has settled: setStatus is reached
\* only when no dbError is thrown
statusAfter(kind, outcome, before) ==
    IF outcome # "ok" THEN before
    ELSE IF kind = "validate" THEN "validated" ELSE "emitted"

\* the toast once the query of a call has settled
toastAfter(kind, outcome) ==
    IF outcome = "ok"
    THEN (IF kind = "validate" THEN "Blueprint validated successfully"
          ELSE "Emission Complete")
    ELSE (IF kind = "validate" THEN "Validation Failed" ELSE "Emission Failed")

\* the values the user can type into the two boxes: a blank text, a text
\* that is no JSON, and the JSON texts of some values
IntakeDocs ==
    {Obj(W("context") :> S("x") @@ W("goals") :> Words), Null}
PanelInputs ==
    {BlankInput, [kind |-> "malformed", doc |-> Undefined]}
    \cup {[kind |-> "json", doc |-> d] : d \in IntakeDocs}
ProjectNames == {<<"blueprint-project">>, <<"other">>}

\* the values of new Date().toISOString() during an emission
EmitTimes == {<<"2025-01-01T00:00:00.000Z">>}

----------------------------------------------------------------------------
(* Specification of the engine panel *)

InitPanel ==
    /\ PanelMounted
    /\ PathIdle
    /\ SchemaIdle
    /\ ScoreIdle
    /\ ValidateIdle
    /\ RenderIdle
    /\ ProcessIdle
    /\ ImplementIdle

NotOfPanel ==
    <<pathVars, schemaVars, scoreVars, validateVars, renderVars, processVars,
      implementVars>>

\* onChange of the textarea
SetInput ==
    /\ \E text \in PanelInputs : input' = text
    /\ UNCHANGED <<projectName, loading, status, outputs, toast, operations,
                   lastQuery, NotOfPanel>>

\* onChange of the project name box
SetProjectName ==
    /\ \E name \in ProjectNames : projectName' = name
    /\ UNCHANGED <<input, loading, status, outputs, toast, operations,
                   lastQuery, NotOfPanel>>

\* a click on a button that is not disabled, up to the first await: the
\* check of input.trim(), setLoading(true), JSON.parse(input), and for a
\* text that does not parse the catch and the finally
Click(kind) ==
    /\ ~loading
    /\ IF input.kind = "blank"
       THEN /\ toast' = "Please paste JSON blueprint data first"
            /\ UNCHANGED <<loading, operations>>
       ELSE IF input.kind = "malformed"
       THEN /\ toast' = toastAfter(kind, "rejected")
            /\ loading' = FALSE
            /\ UNCHANGED operations
       ELSE /\ loading' = TRUE
            /\ operations' =
                  operations \cup {Operation(kind, input.doc, projectName)}
            /\ UNCHANGED toast
    /\ UNCHANGED <<input, projectName, status, outputs, lastQuery, NotOfPanel>>

\* onClick={validateBlueprint}
ClickValidate == Click("validate")
\* onClick={emitBlueprint}
ClickEmit == Click("emit")

\* validateBlueprint after its delay: the upsert is sent
ValidateDelayed ==
    \E op \in operations :
        /\ op.kind = "validate" /\ op.pc = "delay"
        /\ operations' = (operations \ {op}) \cup {[op EXCEPT !.pc = "query"]}
        /\ lastQuery' = Upsert(op.projectName, op.intakeJson)
        /\ UNCHANGED <<input, projectName, loading, status, outputs, toast,
                       NotOfPanel>>

\* emitBlueprint after its delay: the files are built and shown, and the
\* update is sent; an intakeJson that is null makes the first property
\* read raise, which the catch reports
EmitDelayed ==
    \E op \in operations :
        /\ op.kind = "emit" /\ op.pc = "delay"
        /\ IF GetThrows(op.intakeJson)
           THEN /\ operations' = operations \ {op}
                /\ toast' = toastAfter("emit", "rejected")
                /\ loading' = FALSE
                /\ UNCHANGED <<outputs, lastQuery>>
           ELSE \E now \in EmitTimes :
                /\ outputs' = fakeOutputs(op.intakeJson, op.projectName, now)
                /\ operations' =
                      (operations \ {op}) \cup {[op EXCEPT !.pc = "query"]}
                /\ lastQuery' = Update(op.projectName, outputs')
                /\ UNCHANGED <<toast, loading>>
        /\ UNCHANGED <<input, projectName, status, NotOfPanel>>

\* the query of a call settles: setStatus and the toast of success, or the
\* catch; and the finally
QuerySettled(kind) ==
    \E op \in operations, outcome \in QueryOutcomes :
        /\ op.kind = kind /\ op.pc = "query"
        /\ status' = statusAfter(kind, outcome, status)
        /\ toast' = toastAfter(kind, outcome)
        /\ loading' = FALSE
        /\ operations' = operations \ {op}
        /\ UNCHANGED <<input, projectName, outputs, lastQuery, NotOfPanel>>

\* the upsert of validateBlueprint settles
ValidateSettled == QuerySettled("validate")
\* the update of emitBlueprint settles
EmitSettled == QuerySettled("emit")

NextPanel ==
    \/ SetInput
    \/ SetProjectName
    \/ ClickValidate
    \/ ClickEmit
    \/ ValidateDelayed
    \/ EmitDelayed
    \/ ValidateSettled
    \/ EmitSettled

SpecPanel == InitPanel /\ [][NextPanel]_vars

\* the timers fire and the queries settle
SpecPanelFair ==
    /\ SpecPanel
    /\ WF_vars(ValidateDelayed \/ EmitDelayed \/ ValidateSettled \/ EmitSettled)

----------------------------------------------------------------------------
(* claims about the engine panel *)

SuccessToasts == {"Blueprint validated successfully", "Emission Complete"}
FailureToasts ==
    {"Validation Failed", "Emission Failed",
     "Please paste JSON blueprint data first"}

\* a step in which the query of a call of the kind settles
SettleStep(kind) ==
    \E op \in operations :
        /\ op.kind = kind /\ op.pc = "query"
        /\ op \notin operations'

\* a step changes the status only by settling the query of a call, which
\* parsed its input, with success: to "validated" for the upsert of
\* validateBlueprint, to "emitted" for the update of emitBlueprint; a step
\* that reports a failure leaves the status as it is
StatusOnlyOnSuccess ==
    /\ status' # status =>
          \/ /\ status' = "validated" /\ SettleStep("validate")
             /\ lastQuery.op = "upsert"
             /\ toast' = "Blueprint validated successfully"
          \/ /\ status' = "emitted" /\ SettleStep("emit")
             /\ lastQuery.op = "update"
             /\ toast' = "Emission Complete"
    /\ (toast' \in FailureToasts /\ <<toast, operations>> # <<toast', operations'>>)
          => status' = status

\* a call is in flight exactly while loading is true, and never two
OneInFlight ==
    /\ Cardinality(operations) <= 1
    /\ loading <=> operations # {}

\* C28: in the engine panel the status changes only on success: it becomes
\* "validated" only when validateBlueprint has parsed the input and its
\* upsert succeeded, "emitted" only when emitBlueprint has parsed the input
\* and its update succeeded, and a failed operation leaves it unchanged;
\* every started operation eventually resets loading to false; and as both
\* buttons are disabled while loading, at most one validate or emit
\* operation is in flight at a time.
C28_StatusOnlyOnSuccess ==
    /\ [][StatusOnlyOnSuccess]_vars
    /\ []OneInFlight
    /\ (loading ~> ~loading)

\* C28 witness: after a validation that succeeded, an emission built its
\* files and its update failed: the status is still "validated" and
\* loading is false again
C28_Witness ==
    /\ status = "validated"
    /\ toast = "Emission Failed"
    /\ lastQuery.op = "update"
    /\ ~loading /\ operations = {}

OutputsWithoutEmission == outputs # Null /\ status = "draft" /\ ~loading

\* files are shown for a blueprint that was validated again after its
\* emission
OutputsAfterRevalidation ==
    outputs # Null /\ status = "validated" /\ toast = "Blueprint validated successfully"

----------------------------------------------------------------------------
(* IMOCreatorImplementation of scripts/implement-from-imo-creator.ts: the   *)
(* pipeline that clones imo-creator, copies what its branches hold and      *)
(* removes the clone again                                                   *)

\* an entry of BRANCH_FEATURES, by the two fields the pipeline's outcome
\* depends on
Feature(name, implementation) ==
    [name |-> S(name), implementation |-> S(implementation)]

\* const BRANCH_FEATURES: Record<string, BranchFeature>
BRANCH_FEATURES ==
    "feat/claude-code-agents-library" :>
        Feature("Claude Code Agents Library", "claude-code-integration")
    @@ "feat/garage-mcp-integration" :>
        Feature("Garage MCP Integration", "garage-mcp-orchestrator")
    @@ "feat/repo-sight-integration-clean" :>
        Feature("Repository Sight Integration", "repo-sight-analyzer")
    @@ "feature/bmad-full" :>
        Feature("BMAD Telemetry System", "bmad-telemetry")
    @@ "feature/bmad-upgrades" :>
        Feature("BMAD System Upgrades", "bmad-enhanced")
    @@ "vercel-deploy-fix" :>
        Feature("Vercel Deployment Configuration", "vercel-deployment")

\* BRANCH_FEATURES is an object literal, so BRANCH_FEATURES[branch] also
\* finds what Object.prototype holds: for "constructor" the function Object,
\* whose name is "Object" and which has no implementation
ObjectPrototype ==
    "constructor" :> [name |-> S("Object"), implementation |-> Undefined]

\* if (BRANCH_FEATURES[branch])
IsFeature(branch) ==
    branch \in DOMAIN BRANCH_FEATURES \/ branch \in DOMAIN ObjectPrototype

\* BRANCH_FEATURES[branch], where it is truthy
FeatureOf(branch) ==
    IF branch \in DOMAIN BRANCH_FEATURES
    THEN BRANCH_FEATURES[branch]
    ELSE ObjectPrototype[branch]

\* a line of `git branch -r`: "  origin/master", the symbolic
\* "  origin/HEAD -> origin/master", and the empty string that split('\n')
\* leaves after the last newline
RemoteLine(branch) == [remote |-> "origin/", text |-> branch]
HeadLine == [remote |-> "origin/", text |-> "HEAD -> origin/master"]
EmptyLine == [remote |-> "", text |-> ""]

\* .filter(branch => branch && !branch.includes('HEAD'))
KeptLine(line) == line # EmptyLine /\ line # HeadLine

\* analyzeBranches: split, trim, filter, and replace('origin/', '') of each
\* line that is left
analyzeBranches(lines) ==
    LET kept == SelectSeq(lines, KeptLine)
    IN  [i \in 1..Len(kept) |-> kept[i].text]

\* what can raise inside the try of implementBranchFeature: git checkout,
\* fs.mkdirSync, the copy of a file or directory, and fs.writeFileSync of
\* generateFeatureIntegration
FeatureFailures == {"none", "checkout", "mkdirSync", "copy", "writeFileSync"}

\* what can raise inside the try of implementGenericBranch: as above, and
\* git diff master
GenericFailures ==
    {"none", "checkout", "mkdirSync", "diff", "copy", "writeFileSync"}

\* path.join(IMPLEMENTATIONS_DIR, feature.implementation) raises a TypeError
\* unless every argument is a string
JoinRaises(feature) == feature.implementation.t # "str"

\* how a call on one branch ends: the list it leaves, whether its try block
\* raised, and whether the call itself threw
Attempted(features, raised, thrown) ==
    [implementedFeatures |-> features, raised |-> raised, thrown |-> thrown]

\* implementBranchFeature(branchName, feature): the push is the last
\* statement of the try, and the catch only warns
implementBranchFeature(features, branchName, feature, failure) ==
    IF failure # "none" \/ JoinRaises(feature)
    THEN Attempted(features, TRUE, FALSE)
    ELSE Attempted(Append(features, feature.name), FALSE, FALSE)

\* implementGenericBranch(branchName): the same shape, and the branch name
\* is what it pushes
implementGenericBranch(features, branchName, failure) ==
    IF failure # "none"
    THEN Attempted(features, TRUE, FALSE)
    ELSE Attempted(Append(features, S(branchName)), FALSE, FALSE)

\* the body of the loop of implementFeatures
implementBranch(features, branch, failure) ==
    IF IsFeature(branch)
    THEN implementBranchFeature(features, branch, FeatureOf(branch), failure)
    ELSE implementGenericBranch(features, branch, failure)

\* a cleanup that leaves the clone where it is
cleanupSkipped(exists) == exists

\* cleanup: if (fs.existsSync(this.tempDir)) fs.rmSync(this.tempDir,
\* { recursive: true, force: true })
cleanup(exists) == IF exists THEN FALSE ELSE exists

\* how git clone and git fetch --all can end: both succeed; the clone fails
\* and leaves nothing; the clone fails and leaves a partial directory; the
\* fetch fails in the finished clone
CloneOutcomes == {"cloned", "cloneFailed", "cloneFailedPartial", "fetchFailed"}

\* cloneRepository: an old directory is removed first, then execSync runs
\* git twice
cloneRepository(exists, outcome) ==
    [exists |-> IF outcome = "cloneFailed" THEN cleanup(exists) ELSE TRUE,
     thrown |-> outcome # "cloned"]

\* most remote branches of a drawn repository
MaxRemoteBranches == 3

\* the remote branches of the drawn repositories: two that BRANCH_FEATURES
\* names, two it does not, and one that Object.prototype names
RemoteBranches ==
    {"feat/garage-mcp-integration", "vercel-deploy-fix", "master",
     "develop", "constructor"}

\* the outputs of `git branch -r`: the symbolic HEAD first, then each remote
\* branch once, then the empty line
BranchOutputs ==
    {<<HeadLine>> \o [i \in DOMAIN names |-> RemoteLine(names[i])]
         \o <<EmptyLine>> :
       names \in {s \in SeqsUpTo(RemoteBranches, MaxRemoteBranches) :
                    \A i, j \in DOMAIN s : s[i] = s[j] => i = j}}

----------------------------------------------------------------------------
(* Specification of the implementation pipeline *)

\* new IMOCreatorImplementation(), and implement() about to take step 1; a
\* clone directory may be left from an earlier run
InitImplement ==
    /\ implement = "cloneRepository"
    /\ tempDirExists \in BOOLEAN
    /\ gitBranches \in BranchOutputs
    /\ branchNames = <<>>
    /\ branchIndex = 0
    /\ implementedFeatures = <<>>
    /\ attempts = <<>>
    /\ PathIdle
    /\ SchemaIdle
    /\ ScoreIdle
    /\ ValidateIdle
    /\ RenderIdle
    /\ ProcessIdle
    /\ PanelIdle

NotOfImplement ==
    <<pathVars, schemaVars, scoreVars, validateVars, renderVars, processVars,
      panelVars>>

\* Step 1: await this.cloneRepository()
CloneRepository ==
    /\ implement = "cloneRepository"
    /\ \E outcome \in CloneOutcomes :
          /\ tempDirExists' = cloneRepository(tempDirExists, outcome).exists
          /\ implement' = IF cloneRepository(tempDirExists, outcome).thrown
                          THEN "catch"
                          ELSE "analyzeBranches"
    /\ UNCHANGED <<gitBranches, branchNames, branchIndex, implementedFeatures,
                   attempts, NotOfImplement>>

\* Step 2: const branches = await this.analyzeBranches()
AnalyzeBranches ==
    /\ implement = "analyzeBranches"
    /\ \E failed \in BOOLEAN :
          IF failed
          THEN implement' = "catch" /\ UNCHANGED branchNames
          ELSE /\ implement' = "extractStandards"
               /\ branchNames' = analyzeBranches(gitBranches)
    /\ UNCHANGED <<tempDirExists, gitBranches, branchIndex,
                   implementedFeatures, attempts, NotOfImplement>>

\* a step that touches neither the clone directory nor the list: it raises,
\* or the pipeline goes on to the next step
PipelineStep(at, next) ==
    /\ implement = at
    /\ \E failed \in BOOLEAN :
          implement' = IF failed THEN "catch" ELSE next
    /\ UNCHANGED <<tempDirExists, gitBranches, branchNames, branchIndex,
                   implementedFeatures, attempts, NotOfImplement>>

\* Step 3: await this.extractStandards(branches)
ExtractStandards == PipelineStep("extractStandards", "implementFeatures")

\* Step 4: await this.implementFeatures(branches), up to its loop
ImplementFeatures ==
    PipelineStep("implementFeatures",
         IF branchNames = <<>> THEN "updateCTBBlueprint" ELSE "forBranch")

\* one turn of for (const branch of branches)
ImplementBranch ==
    /\ implement = "forBranch"
    /\ branchIndex < Len(branchNames)
    /\ \E failure \in IF IsFeature(branchNames[branchIndex + 1])
                      THEN FeatureFailures ELSE GenericFailures :
          LET branch == branchNames[branchIndex + 1]
              done == implementBranch(implementedFeatures, branch, failure)
          IN  /\ implementedFeatures' = done.implementedFeatures
              /\ attempts' = Append(attempts,
                                [branch |-> branch, raised |-> done.raised])
              /\ branchIndex' = branchIndex + 1
              /\ implement' =
                    IF done.thrown THEN "catch"
                    ELSE IF branchIndex + 1 = Len(branchNames)
                         THEN "updateCTBBlueprint"
                         ELSE "forBranch"
    /\ UNCHANGED <<tempDirExists, gitBranches, branchNames, NotOfImplement>>

\* Step 5: await this.updateCTBBlueprint()
UpdateCTBBlueprint == PipelineStep("updateCTBBlueprint", "generateDocumentation")

\* Step 6: await this.generateDocumentation()
GenerateDocumentation == PipelineStep("generateDocumentation", "updateDependencies")

\* Step 7: await this.updateDependencies()
UpdateDependencies == PipelineStep("updateDependencies", "cleanup")

\* Step 8: await this.cleanup(), and implement() returns
Cleanup ==
    /\ implement = "cleanup"
    /\ tempDirExists' = cleanup(tempDirExists)
    /\ implement' = "returned"
    /\ UNCHANGED <<gitBranches, branchNames, branchIndex, implementedFeatures,
                   attempts, NotOfImplement>>

\* catch (error) { await this.cleanup(); throw error }
CatchCleanup ==
    /\ implement = "catch"
    /\ tempDirExists' = cleanup(tempDirExists)
    /\ implement' = "thrown"
    /\ UNCHANGED <<gitBranches, branchNames, branchIndex, implementedFeatures,
                   attempts, NotOfImplement>>

NextImplement ==
    \/ CloneRepository
    \/ AnalyzeBranches
    \/ ExtractStandards
    \/ ImplementFeatures
    \/ ImplementBranch
    \/ UpdateCTBBlueprint
    \/ GenerateDocumentation
    \/ UpdateDependencies
    \/ Cleanup
    \/ CatchCleanup

SpecImplement == InitImplement /\ [][NextImplement]_vars

----------------------------------------------------------------------------
(* Claims about the implementation pipeline *)

\* implement() has returned or thrown
ImplementFinished == implement \in {"returned", "thrown"}

\* what implementedFeatures holds for a branch: the name of its feature, or
\* the branch name where BRANCH_FEATURES has no entry
LabelOf(branch) ==
    IF IsFeature(branch) THEN FeatureOf(branch).name ELSE S(branch)

Completed(attempt) == ~attempt.raised

\* the labels of the branches tried so far whose try block did not raise
CompletedLabels ==
    LET completed == SelectSeq(attempts, Completed)
    IN  [i \in 1..Len(completed) |-> LabelOf(completed[i].branch)]

\* this step tried a branch, and its try block raised
BranchFailed ==
    /\ Len(attempts') = Len(attempts) + 1
    /\ attempts'[Len(attempts')].raised

\* every branch that analyzeBranches found has been tried, in order
AllTried ==
    /\ Len(attempts) = Len(branchNames)
    /\ \A i \in DOMAIN attempts : attempts[i].branch = branchNames[i]

ThrownAfterImplementing ==
    implement = "thrown" /\ ~tempDirExists /\ implementedFeatures # <<>>
============================================================================
